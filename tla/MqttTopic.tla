----------------------------- MODULE MqttTopic ------------------------------
(***************************************************************************)
(* isTopicMatched() of MQTTClient.h: a topic filter with wildcards against *)
(* a topic name, one pass of its loop per step.  Characters are "/", "+",  *)
(* "#" and letters; a pointer is a position, and the filter is ended by    *)
(* its terminator, the name by its length.                                 *)
(***************************************************************************)
EXTENDS Integers, Sequences, FiniteSets

CONSTANTS Filters, Names    \* topics as sequences of characters

ASSUME TopicAssumption ==
  Filters \subseteq Seq(STRING) /\ Names \subseteq Seq(STRING)

VARIABLES filter, name, curf, curn, result

topicVars == <<filter, name, curf, curn, result>>

End == Len(name) + 1           \* curn_end
AtF == IF curf > Len(filter) THEN "0" ELSE filter[curf]
AtN == name[curn]

\* The last character of the level that position i is in.
LevelEnd(i) ==
  CHOOSE k \in i..Len(name) :
    /\ k = Len(name) \/ name[k + 1] = "/"
    /\ \A j \in i + 1..k : name[j] # "/"

TopicInit ==
  /\ filter \in Filters /\ name \in Names
  /\ curf = 1 /\ curn = 1 /\ result = "none"

LoopRuns == result = "none" /\ AtF # "0" /\ curn < End
MismatchCharOnly == AtF \notin {"+", "#"} /\ AtF # AtN
Mismatch ==
  \/ AtN = "/" /\ AtF # "/"
  \/ AtF \notin {"+", "#"} /\ AtF # AtN

SkipPlus == LevelEnd(curn)

Advance ==
  /\ LoopRuns /\ ~Mismatch
  /\ curn' = 1 + (CASE AtF = "+" -> SkipPlus
                    [] AtF = "#" -> End - 1
                    [] OTHER -> curn)
  /\ curf' = curf + 1
  /\ UNCHANGED <<filter, name, result>>

Leave ==
  /\ result = "none" /\ (LoopRuns => Mismatch)
  /\ result' = IF curn = End /\ AtF = "0" THEN "yes" ELSE "no"
  /\ UNCHANGED <<filter, name, curf, curn>>

TopicNext == Advance \/ Leave
TopicSpec == TopicInit /\ [][TopicNext]_topicVars /\ WF_topicVars(TopicNext)

-----------------------------------------------------------------------------
(* The meaning of a filter, level by level: "+" is any one level that is   *)
(* not empty, a final "#" is one or more levels of which the first is not  *)
(* empty, anything else is itself.                                         *)
Depth(s, i) == Cardinality({j \in 1..i - 1 : s[j] = "/"})
LastLevel(s) == Depth(s, Len(s) + 1)

\* Level k of s, counted from 0: from its first character to what ends it.
FirstOf(s, k) ==
  CHOOSE i \in 1..Len(s) + 1 : Depth(s, i) = k /\ (i = 1 \/ s[i - 1] = "/")
EndOf(s, k) ==
  CHOOSE i \in 1..Len(s) + 1 :
    Depth(s, i) = k /\ (i = Len(s) + 1 \/ s[i] = "/")
Level(s, k) == SubSeq(s, FirstOf(s, k), EndOf(s, k) - 1)

\* A filter: "+" and "#" only as whole levels, "#" only as the last one.
WellFormed(f) ==
  \A i \in DOMAIN f : f[i] \in {"+", "#"} =>
    /\ i = 1 \/ f[i - 1] = "/"
    /\ i = Len(f) \/ (f[i] = "+" /\ f[i + 1] = "/")

SameLevel(f, n, k) ==
  \/ Level(f, k) = Level(n, k)
  \/ Level(f, k) = <<"+">> /\ Level(n, k) # <<>>
Matches(f, n) ==
  LET last == LastLevel(f)
      hash == Level(f, last) = <<"#">>
  IN /\ IF hash THEN LastLevel(n) >= last /\ Level(n, last) # <<>>
                ELSE LastLevel(n) = last /\ SameLevel(f, n, last)
     /\ \A k \in 0..last - 1 : SameLevel(f, n, k)

(* A handler is called exactly for the topics its filter means.            *)
MatchIsMeaning == result # "none" => (result = "yes" <=> Matches(filter, name))
=============================================================================
