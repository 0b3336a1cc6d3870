---------------------------- MODULE CommandDelivery ----------------------------
(***************************************************************************)
(* What the command path promises to those who submit commands, whatever   *)
(* threads, queues and files it is made of: an accepted command stays      *)
(* pending until it has been applied, or a strictly newer command for the  *)
(* same key makes it useless, or it is set aside in the dead letter        *)
(* office; and applying never puts older data in the place of newer.       *)
(* CommandPipeline implements it.                                          *)
(***************************************************************************)
EXTENDS Integers, Sequences, TLAPS

CONSTANTS
  Keys,      \* the keys whose data the database keeps
  Commands   \* what may be submitted: records with a key and a time

VARIABLES
  sent,      \* every command accepted; its id is its index
  pending,   \* ids of the commands still owed something
  applied,   \* ids of the commands that have run to success
  dead,      \* ids of the commands set aside
  lost,      \* ids of the commands taken away from outside
  data       \* per key, the time of what the database holds (0: nothing)

vars == <<sent, pending, applied, dead, lost, data>>

Init ==
  /\ sent = <<>>
  /\ pending = {}
  /\ applied = {}
  /\ dead = {}
  /\ lost = {}
  /\ data = [k \in Keys |-> 0]

Accept(c) ==
  /\ sent' = Append(sent, c)
  /\ pending' = pending \cup {Len(sent')}
  /\ UNCHANGED <<applied, dead, lost, data>>

\* A command may be applied again, after a crash or a failed acknowledgement,
\* and even late, by an attempt that outlives the decision about its command.
Apply(i) ==
  /\ i \in DOMAIN sent
  /\ applied' = applied \cup {i}
  /\ data' = IF sent[i].key \in Keys /\ data[sent[i].key] < sent[i].time
             THEN [data EXCEPT ![sent[i].key] = sent[i].time] ELSE data
  /\ UNCHANGED <<sent, pending, dead, lost>>

Leave(i) == i \in pending /\ pending' = pending \ {i}

Settle(i) ==
  /\ i \in applied
  /\ Leave(i)
  /\ UNCHANGED <<sent, applied, dead, lost, data>>

Supersede(i) ==
  /\ \E j \in DOMAIN sent : sent[j].key = sent[i].key /\ sent[j].time > sent[i].time
  /\ Leave(i)
  /\ UNCHANGED <<sent, applied, dead, lost, data>>

SetAside(i) ==
  /\ Leave(i)
  /\ dead' = dead \cup {i}
  /\ UNCHANGED <<sent, applied, lost, data>>

Lose(i) ==
  /\ Leave(i)
  /\ lost' = lost \cup {i}
  /\ UNCHANGED <<sent, applied, dead, data>>

Next ==
  \/ \E c \in Commands : Accept(c)
  \/ \E i \in DOMAIN sent : Apply(i)
  \/ \E i \in pending : Settle(i) \/ Supersede(i) \/ SetAside(i) \/ Lose(i)

Spec == Init /\ [][Next]_vars

-----------------------------------------------------------------------------
(***************************************************************************)
(* The newest command of a key is in effect, or will be, or was set aside. *)
(***************************************************************************)
NewestKept ==
  \A i \in DOMAIN sent :
    /\ sent[i].key \in Keys
    /\ \A j \in DOMAIN sent : sent[j].key = sent[i].key => sent[j].time <= sent[i].time
    => data[sent[i].key] >= sent[i].time \/ i \in pending \cup dead \cup lost

-----------------------------------------------------------------------------
Typed ==
  /\ sent \in Seq(Commands)
  /\ pending \subseteq DOMAIN sent
  /\ applied \subseteq DOMAIN sent
  /\ data \in [Keys -> Int]

InEffect ==
  \A i \in applied : sent[i].key \in Keys => data[sent[i].key] >= sent[i].time

Superseded(i) ==
  \E j \in DOMAIN sent : sent[j].key = sent[i].key /\ sent[j].time > sent[i].time

Accounted ==
  \A i \in DOMAIN sent :
    i \in pending \cup applied \cup dead \cup lost \/ Superseded(i)

Inv == Typed /\ InEffect /\ Accounted

\* What was sent stays as it was.
LEMMA SentStays ==
  ASSUME Typed, [Next]_vars
  PROVE  /\ DOMAIN sent \subseteq DOMAIN sent'
         /\ \A i \in DOMAIN sent : sent'[i] = sent[i]
<1>1. CASE \E c \in Commands : Accept(c)
  BY <1>1 DEF Accept, Typed
<1>2. CASE UNCHANGED vars
  BY <1>2 DEF vars
<1>3. CASE \/ \E i \in DOMAIN sent : Apply(i)
           \/ \E i \in pending : Settle(i) \/ Supersede(i) \/ SetAside(i) \/ Lose(i)
  BY <1>3 DEF Apply, Settle, Supersede, SetAside, Lose
<1> QED
  BY <1>1, <1>2, <1>3 DEF Next

LEMMA NextInv ==
  ASSUME \A c \in Commands : c.time \in Int, Inv, [Next]_vars
  PROVE  Inv'
<1> USE DEF Inv
<1>1. /\ DOMAIN sent \subseteq DOMAIN sent'
      /\ \A i \in DOMAIN sent : sent'[i] = sent[i]
  BY SentStays
<1>2. \A i \in DOMAIN sent : Superseded(i) => Superseded(i)'
  BY <1>1 DEF Superseded
<1>3. \A i \in DOMAIN sent : sent[i].time \in Int
  BY DEF Typed
<1>4. CASE UNCHANGED vars
  BY <1>4 DEF vars, Typed, InEffect, Accounted, Superseded
<1>5. ASSUME NEW c \in Commands, Accept(c) PROVE Inv'
  <2>1. /\ DOMAIN sent' = DOMAIN sent \cup {Len(sent')}
        /\ pending' = pending \cup {Len(sent')}
        /\ sent' \in Seq(Commands)
    BY <1>5 DEF Accept, Typed
  <2>2. Typed'
    BY <1>1, <1>5, <2>1 DEF Accept, Typed
  <2>3. InEffect'
    BY <1>1, <1>5 DEF Accept, Typed, InEffect
  <2>4. Accounted'
    BY <1>1, <1>2, <1>5, <2>1 DEF Accept, Accounted
  <2> QED
    BY <2>2, <2>3, <2>4
<1>6. ASSUME NEW i \in DOMAIN sent, Apply(i) PROVE Inv'
  <2>1. sent[i].time \in Int /\ i \in DOMAIN sent
    BY <1>3 DEF Typed
  <2>2. data' \in [Keys -> Int]
    BY <1>6, <2>1 DEF Apply, Typed
  <2>3. \A k \in Keys : data'[k] >= data[k]
    BY <1>6, <2>1 DEF Apply, Typed
  <2>4. sent[i].key \in Keys => data'[sent[i].key] >= sent[i].time
    BY <1>6, <2>1 DEF Apply, Typed
  <2>5. InEffect'
    BY <1>3, <1>6, <2>2, <2>3, <2>4 DEF Apply, Typed, InEffect
  <2>6. Typed'
    BY <1>6, <2>1, <2>2 DEF Apply, Typed
  <2>7. Accounted'
    BY <1>6 DEF Apply, Accounted, Superseded
  <2> QED
    BY <2>5, <2>6, <2>7
<1>7. ASSUME NEW i \in pending,
             Settle(i) \/ Supersede(i) \/ SetAside(i) \/ Lose(i)
      PROVE  Inv'
  <2>1. /\ pending' = pending \ {i}
        /\ UNCHANGED <<sent, applied, data>>
        /\ dead \subseteq dead' /\ lost \subseteq lost'
    BY <1>7 DEF Settle, Supersede, SetAside, Lose, Leave
  <2>2. i \in applied \cup dead' \cup lost' \/ Superseded(i)
    BY <1>7 DEF Settle, Supersede, SetAside, Lose, Superseded
  <2>3. Typed' /\ InEffect'
    BY <2>1 DEF Typed, InEffect
  <2>4. Accounted'
    BY <2>1, <2>2 DEF Accounted, Superseded
  <2> QED
    BY <2>3, <2>4
<1> QED
  BY <1>4, <1>5, <1>6, <1>7 DEF Next

\* The promise implies that the newest command of a key is never bashed
\* (NewestKept above), provided timestamps can be compared.
THEOREM NewestIsKept ==
  ASSUME \A c \in Commands : c.time \in Int
  PROVE  Spec => []NewestKept
<1>1. Init => Inv
  BY DEF Init, Inv, Typed, InEffect, Accounted
<1>2. Inv /\ [Next]_vars => Inv'
  BY NextInv
<1>3. Inv => NewestKept
  <2> SUFFICES ASSUME Inv, NEW i \in DOMAIN sent, sent[i].key \in Keys,
                      \A j \in DOMAIN sent :
                        sent[j].key = sent[i].key => sent[j].time <= sent[i].time
               PROVE  data[sent[i].key] >= sent[i].time
                      \/ i \in pending \cup dead \cup lost
    BY DEF NewestKept
  <2>1. \A j \in DOMAIN sent : sent[j].time \in Int
    BY DEF Inv, Typed
  <2>2. ~Superseded(i)
    BY <2>1 DEF Superseded
  <2> QED
    BY <2>2 DEF Inv, Accounted, InEffect
<1> QED
  BY <1>1, <1>2, <1>3, PTL DEF Spec
=============================================================================
