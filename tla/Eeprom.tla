------------------------------- MODULE Eeprom -------------------------------
(***************************************************************************)
(* Class Eeprom and the device behind it: strings in pages of one device,  *)
(* write cycles that outlast the call that starts them, and power losses   *)
(* at any moment.  The handlers of class State are the lists of calls they *)
(* make, in their order.                                                   *)
(***************************************************************************)
EXTENDS Integers, Sequences

CONSTANTS
  PageSize,      \* 64, the distance of two registers
  ByteBase,      \* 256, the values of an address byte
  Chars,         \* the bytes a string may have
  NUL, Blank,    \* the end of a string; a byte of an erased device (0xFF)
  Modes,         \* the strings written for a mode, "0" and "1"
  Targets,       \* the strings written for a target
  MaxLosses      \* how often the power fails

ASSUME EepromAssumption ==
  /\ PageSize \in Nat \ {0, 1, 2} /\ ByteBase \in Nat \ {0}
  /\ 6 * PageSize <= ByteBase * ByteBase    \* an address is two bytes
  /\ MaxLosses \in Nat /\ NUL \notin Chars /\ Blank \notin Chars \cup {NUL}
  /\ \A s \in Modes \cup Targets : s \in Seq(Chars) /\ Len(s) <= PageSize - 3

EEPROM_REG_NETWORK_ID == 0
EEPROM_REG_NETWORK_PW == PageSize
EEPROM_REG_BROKER_IP == 2 * PageSize
EEPROM_REG_MODE == 3 * PageSize
EEPROM_REG_TAR_PRES == 4 * PageSize
EEPROM_REG_TAR_FAN == 5 * PageSize

Addresses == {i * PageSize : i \in 0..5}
Cells == 0..(6 * PageSize - 1)
EepromBytes == Chars \cup {NUL, Blank}
\* No string: what std::string() makes of bytes without an end.
NoString == <<NUL>>
Strings == Seq(Chars) \cup {NoString}

VARIABLES
  mem,           \* what the device holds
  cycle,         \* what it holds after the write cycle under way
  busy,          \* whether there is one
  hi, lo,        \* mCurrentReadWriteAddress
  todo,          \* the calls a handler still makes, the one running first
  stage,
  got,           \* what the latest read() returned, and from where
  losses,
  before, after  \* the strings asked for by all write()s but the latest; by all

deviceVars == <<mem, cycle, busy>>
askedVars == <<before, after>>
eepromVars == <<deviceVars, hi, lo, todo, stage, got, losses, askedVars>>

-----------------------------------------------------------------------------
(* The calls State and main() make *)

WriteAt(addr, s) == [op |-> "write", addr |-> addr, s |-> s]
ReadAt(addr) == [op |-> "read", addr |-> addr, s |-> <<>>]

\* State's constructor, then main().
Restore ==
  <<ReadAt(EEPROM_REG_MODE), ReadAt(EEPROM_REG_TAR_FAN),
    ReadAt(EEPROM_REG_TAR_PRES), ReadAt(EEPROM_REG_NETWORK_ID),
    ReadAt(EEPROM_REG_NETWORK_PW), ReadAt(EEPROM_REG_BROKER_IP)>>
\* ConnectMQTT saves the strings it has moved from: three empty ones.
SaveNetwork ==
  <<WriteAt(EEPROM_REG_NETWORK_ID, <<>>), WriteAt(EEPROM_REG_NETWORK_PW, <<>>),
    WriteAt(EEPROM_REG_BROKER_IP, <<>>)>>
SaveSettings(mode, pres, fan) ==
  <<WriteAt(EEPROM_REG_MODE, mode), WriteAt(EEPROM_REG_TAR_PRES, pres),
    WriteAt(EEPROM_REG_TAR_FAN, fan)>>
SaveToggle(mode, fan) ==
  <<WriteAt(EEPROM_REG_MODE, mode), WriteAt(EEPROM_REG_TAR_FAN, fan)>>
SavePressure(pres) == <<WriteAt(EEPROM_REG_TAR_PRES, pres)>>
SaveFan(fan) == <<WriteAt(EEPROM_REG_TAR_FAN, fan)>>

Saves ==
  {SaveNetwork}
    \cup {SaveSettings(m, p, f) : m \in Modes, p \in Targets, f \in Targets}
    \cup {SaveToggle(m, f) : m \in Modes, f \in Targets}
    \cup {SavePressure(p) : p \in Targets} \cup {SaveFan(f) : f \in Targets}

-----------------------------------------------------------------------------
(* The device: an erased one at first *)

\* A write stays inside its page, round which its address wraps.
PageWrite(image, addr, bytes) ==
  LET page == (addr \div PageSize) * PageSize
      Offset(c) == (c - addr) % PageSize
  IN [c \in Cells |-> IF /\ c \in page..(page + PageSize - 1)
                         /\ Offset(c) < Len(bytes)
                      THEN bytes[Offset(c) + 1] ELSE image[c]]

CycleEnds ==
  /\ busy /\ busy' = FALSE /\ mem' = cycle
  /\ UNCHANGED <<cycle, hi, lo, todo, stage, got, losses, askedVars>>

-----------------------------------------------------------------------------
(* Class Eeprom *)

Nothing == [addr |-> 0, s |-> NoString]
EepromInit ==
  /\ mem = [c \in Cells |-> Blank] /\ cycle = mem /\ busy = FALSE
  /\ hi = 0 /\ lo = 0 /\ todo = Restore /\ stage = "call"
  /\ got = Nothing /\ losses = 0
  /\ before = [a \in Addresses |-> NoString] /\ after = before

\* A handler of State begins to save.
Handler(calls) ==
  /\ todo = <<>> /\ todo' = calls
  /\ UNCHANGED <<deviceVars, hi, lo, stage, got, losses, askedVars>>

LowByte(addr) == addr % ByteBase
mSetReadWriteAddress ==
  /\ stage = "call" /\ todo # <<>> /\ stage' = "wait"
  /\ hi' = Head(todo).addr \div ByteBase /\ lo' = LowByte(Head(todo).addr)
  /\ UNCHANGED <<deviceVars, todo, got, losses, askedVars>>

\* A busy device does not acknowledge (PICO_ERROR_GENERIC) and is asked again.
ReadyAlways == TRUE
Ready == ~busy
mWaitUntilReady ==
  /\ stage = "wait" /\ stage' = IF Ready THEN "transfer" ELSE "wait"
  /\ UNCHANGED <<deviceVars, hi, lo, todo, got, losses, askedVars>>

Address == hi * ByteBase + lo
Return == todo' = Tail(todo) /\ stage' = "call"

\* The bytes behind the address; a busy device takes none of them.
Terminated(s) == Append(s, NUL)
write ==
  LET call == Head(todo)
  IN /\ stage = "transfer" /\ call.op = "write" /\ Return
     /\ busy' = TRUE
     /\ cycle' = IF busy THEN cycle
                 ELSE PageWrite(mem, Address, Terminated(call.s))
     /\ before' = after /\ after' = [after EXCEPT ![call.addr] = call.s]
     /\ got' = Nothing
     /\ UNCHANGED <<mem, hi, lo, losses>>

\* The string at an address.  62 bytes are read; when none of them is NUL,
\* std::string() runs on into what the stack holds.
Ends(addr) == {n \in 0..(PageSize - 3) : mem[addr + n] = NUL}
StringAt(addr) ==
  IF Ends(addr) = {} THEN NoString
  ELSE LET n == CHOOSE n \in Ends(addr) : \A k \in Ends(addr) : n <= k
       IN [i \in 1..n |-> mem[addr + i - 1]]
read ==
  LET call == Head(todo)
  IN /\ stage = "transfer" /\ call.op = "read" /\ Return
     /\ got' = [addr |-> call.addr,
                s |-> IF busy THEN NoString ELSE StringAt(Address)]
     /\ UNCHANGED <<deviceVars, hi, lo, losses, askedVars>>

\* Power fails in a handler, in a call or in a write cycle, whose page is then
\* the old or the new one; the restarted program reads its settings back.
PowerLoss ==
  /\ losses < MaxLosses /\ losses' = losses + 1
  /\ busy' = FALSE /\ todo' = Restore /\ stage' = "call"
  /\ hi' = 0 /\ lo' = 0 /\ got' = Nothing
  /\ \/ mem' = mem /\ after' = IF busy THEN before ELSE after
     \/ busy /\ mem' = cycle /\ after' = after
  /\ cycle' = mem' /\ before' = after'

Calls == mSetReadWriteAddress \/ mWaitUntilReady \/ write \/ read
EepromNext ==
  \/ \E calls \in Saves : Handler(calls)
  \/ Calls \/ CycleEnds \/ PowerLoss
EepromSpec == EepromInit /\ [][EepromNext]_eepromVars
\* The program runs, and a write cycle of the device ends (in 5 ms).
EepromFairSpec ==
  EepromSpec /\ WF_eepromVars(Calls) /\ WF_eepromVars(CycleEnds)

-----------------------------------------------------------------------------
\* The address is two bytes, the device holds bytes.
EepromTypeOK ==
  /\ {mem, cycle} \subseteq [Cells -> EepromBytes] /\ busy \in BOOLEAN
  /\ hi \in 0..(ByteBase - 1) /\ lo \in 0..(ByteBase - 1)
  /\ stage \in {"call", "wait", "transfer"} /\ losses \in 0..MaxLosses
  /\ {before, after} \subseteq [Addresses -> Strings]

(* What a power loss finds in the device is the result of all the write()s *)
(* so far, in their order, or of all but the latest: the three writes of a *)
(* settings message (State::update) can be cut short, but never skip one   *)
(* or let a later one overtake.                                            *)
Held == [a \in Addresses |-> StringAt(a)]
PrefixSaved == Held \in {before, after}

(* read() returns the string last written at its address, although a       *)
(* shorter string leaves the end of a longer one behind it in its page and *)
(* addresses are taken apart into two bytes.                               *)
ReadsBack == got # Nothing => got.s = after[got.addr]

(* The settings survive: what is held is what was written up to some       *)
(* write(), and what is read is what is held.                              *)
SavesHold == EepromTypeOK /\ PrefixSaved /\ ReadsBack
=============================================================================
