------------------------------- MODULE Sensors -------------------------------
(***************************************************************************)
(* A sensor with two readings of 32 bits (GMP252: CO2 and temperature,     *)
(* HMP60: humidity and temperature), each in two registers, which update() *)
(* reads one after the other through ModbusRegister while the device goes  *)
(* on measuring.  No result of a transaction is looked at.  An answer      *)
(* names no register: once one has come too late, any may be taken for it. *)
(***************************************************************************)
EXTENDS Integers

CONSTANT Bits    \* of a register; a value is the set of those that are set

Values == SUBSET Bits

\* The order in which update() reads: a reading and a half of it.
Order == <<<<1, "low">>, <<1, "high">>, <<2, "low">>, <<2, "high">>>>
Registers == {Order[i] : i \in 1..4}

VARIABLES
  device,        \* the registers of the device
  member,        \* the halves of the two readings, as shown and published
  step,          \* the next of the four transactions of update()
  ring,          \* whether the receive ring is "clean" or holds a late answer
  trusted,       \* no answer of this update() was late or damaged
  held           \* what each register has held since this update() began

sensorVars == <<device, member, step, ring, trusted, held>>

SensorInit ==
  /\ device = [r \in Registers |-> {}] /\ ring = "clean" /\ trusted = TRUE
  /\ member = [r \in Registers |-> {}] /\ step = 1
  /\ held = [r \in Registers |-> {{}}]

\* The device stores a new sample of one of its readings.
Measure ==
  /\ \E q \in {1, 2}, low, high \in Values :
       device' = [device EXCEPT ![<<q, "low">>] = low, ![<<q, "high">>] = high]
  /\ held' = [r \in Registers |-> held[r] \cup {device'[r]}]
  /\ UNCHANGED <<member, step, ring, trusted>>

\* The low half is assigned, which clears the high half; that is or-ed in.
StoredOred(r, v) == [member EXCEPT ![r] = @ \cup v]
Stored(r, v) ==
  IF r[2] = "low" THEN [member EXCEPT ![r] = v, ![<<r[1], "high">>] = {}]
  ELSE [member EXCEPT ![r] = @ \cup v]

NextStep == (step % 4) + 1
\* One transaction of update(), which ModbusRegister::read() makes of v.
Transaction(v, trust) ==
  /\ member' = Stored(Order[step], v) /\ step' = NextStep
  /\ held' = IF step = 1 THEN [r \in Registers |-> {device[r]}] ELSE held
  /\ trusted' = (trust /\ (step = 1 \/ trusted))
  /\ UNCHANGED device

Answered == ring = "clean" /\ Transaction(device[Order[step]], TRUE)
             /\ UNCHANGED ring
\* value = 0 stands when nothing comes; the answer may come later.
TimedOut == Transaction({}, ring = "clean") /\ ring' \in {ring, "late"}
\* The value is stored before the checksum is looked at.
Damaged == \E v \in Values : Transaction(v, FALSE) /\ UNCHANGED ring
\* An earlier answer, or its rest, is taken; a time-out may empty the ring.
Shifted ==
  /\ ring = "late" /\ ring' \in {"clean", "late"}
  /\ \E v \in Values : Transaction(v, FALSE)

SensorNext == Measure \/ Answered \/ TimedOut \/ Damaged \/ Shifted
SensorSpec == SensorInit /\ [][SensorNext]_sensorVars

-----------------------------------------------------------------------------
(* When update() is through, each half of a reading is what its register   *)
(* held during this update(), or 0 for a transaction that failed: never a  *)
(* bit of an earlier reading, unless an answer was late or damaged.        *)
ReadingIsFresh ==
  step = 1 /\ trusted => \A r \in Registers : member[r] \in held[r] \cup {{}}
=============================================================================
