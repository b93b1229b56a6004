--------------------------- MODULE ToolLocksProofs ---------------------------
(***************************************************************************)
(* Calls of one key exclude each other and no key is kept or forgotten at  *)
(* the wrong time: proved for any runs, batches, slots and cancels.        *)
(***************************************************************************)
EXTENDS ToolLocks, SequenceTheorems, TLAPS

Labels == {"off", "wait", "acquire", "run", "unlock", "leave", "reported"}

(* Where a call with a key counts in the key's entry, and where it holds it. *)
Inside   == {"wait", "acquire", "run", "unlock", "leave"}
Holding  == {"acquire", "run", "unlock"}
Keyed(c) == Key(c) # "" /\ call[c] \in Inside

Shape ==
    /\ call \in [Calls -> Labels]
    /\ entry \in [Keys -> Calls \union {None}]
    /\ uses \in [Calls -> Calls \union {None}]
    /\ slot \in [Calls -> Calls \union {None}]
    /\ \A c \in Calls : call[c] \in {"wait", "unlock", "leave"} => Key(c) # ""

(* A call counts in the entry its key has, one that holds is in its slot.   *)
Counted ==
    \A c \in Calls :
        /\ Keyed(c) => uses[c] = entry[Key(c)] /\ uses[c] # None
        /\ ~Keyed(c) => uses[c] = None
        /\ Keyed(c) /\ call[c] \in Holding => slot[uses[c]] = c

(* An entry is named by a call of its key, and used by one. *)
Named ==
    \A k \in Keys : entry[k] # None =>
        /\ Key(entry[k]) = k
        /\ \E c \in Calls : Keyed(c) /\ Key(c) = k

LockInv == Shape /\ Counted /\ Named

-----------------------------------------------------------------------------
LEMMA KeysOfCalls == \A c \in Calls : Key(c) \in Keys \union {""}
  BY DEF Key, Keys

LEMMA NoneIsNoCall == None \notin Calls
  <1> DEFINE Steps == Tops \union Nat
  <1>1. \A c \in TopBatches : c \in Seq(Steps) /\ c # None
    <2> SUFFICES ASSUME NEW c \in TopBatches
                 PROVE  c \in Seq(Steps) /\ c # <<>>
      BY DEF None
    <2>1. PICK t \in Tops, i \in 1 .. TopCalls : c = <<t, i>>
      BY DEF TopBatches
    <2>2. t \in Steps /\ i \in Steps
      OBVIOUS
    <2> HIDE DEF Steps
    <2> QED BY <2>1, <2>2
  <1>2. \A c \in ChildBatches : c # None
    <2> SUFFICES ASSUME NEW b \in TopBatches, NEW i \in 1 .. ChildCalls
                 PROVE  Append(b, i) # <<>>
      BY DEF ChildBatches, None
    <2>1. b \in Seq(Steps) /\ i \in Steps
      BY <1>1
    <2> HIDE DEF Steps
    <2> QED BY <2>1, AppendProperties
  <1> QED BY <1>1, <1>2 DEF Calls

LEMMA KeyStays == ASSUME kind' = kind
                  PROVE  \A c \in Calls : Key(c)' = Key(c)
  BY DEF Key, Kind

(* The step of a call that leaves the entries alone: where it counts stays. *)
LEMMA Moves ==
  ASSUME LockInv, NEW c \in Calls, NEW l \in Labels, kind' = kind,
         call' = [call EXCEPT ![c] = l], UNCHANGED <<entry, uses>>,
         slot' \in [Calls -> Calls \union {None}],
         Keyed(c) <=> Key(c) # "" /\ l \in Inside,
         l \in {"wait", "unlock", "leave"} => Key(c) # "",
         \A d \in Calls : Keyed(d) /\ call'[d] \in Holding => slot'[uses[d]] = d
  PROVE  LockInv'
  <1>1. \A d \in Calls : Key(d)' = Key(d)
    BY KeyStays
  <1>2. \A d \in Calls : call'[d] = IF d = c THEN l ELSE call[d]
    BY DEF LockInv, Shape
  <1>3. \A d \in Calls : Keyed(d)' <=> Keyed(d)
    <2>1. \A d \in Calls : Keyed(d)' <=> Key(d) # "" /\ call'[d] \in Inside
      BY <1>1 DEF Keyed
    <2>2. \A d \in Calls : d # c => (Keyed(d) <=> Key(d) # "" /\ call[d] \in Inside)
      BY DEF Keyed
    <2> QED BY <1>2, <2>1, <2>2
  <1>4. Shape'
    BY <1>1, <1>2 DEF LockInv, Shape
  <1>5. Counted'
    BY <1>1, <1>2, <1>3 DEF LockInv, Counted
  <1>6. Named'
    <2>1. \A k \in Keys : entry[k] # None => entry[k] \in Calls
      BY DEF LockInv, Shape
    <2> QED BY <1>1, <1>3, <2>1 DEF LockInv, Named
  <1> QED BY <1>4, <1>5, <1>6 DEF LockInv

LEMMA Idles ==
  ASSUME LockInv, UNCHANGED <<kind, call, locks>>
  PROVE  LockInv'
  <1>1. \A d \in Calls : Key(d)' = Key(d)
    BY KeyStays
  <1>2. \A d \in Calls : Keyed(d)' <=> Keyed(d)
    BY <1>1 DEF Keyed
  <1>3. UNCHANGED <<call, entry, uses, slot>>
    BY DEF locks
  <1>4. \A k \in Keys : entry[k] # None => entry[k] \in Calls
    BY DEF LockInv, Shape
  <1>5. Shape'
    BY <1>1, <1>3 DEF LockInv, Shape
  <1>6. Counted'
    BY <1>1, <1>2, <1>3 DEF LockInv, Counted
  <1>7. Named'
    BY <1>1, <1>2, <1>3, <1>4 DEF LockInv, Named
  <1> QED BY <1>5, <1>6, <1>7 DEF LockInv

-----------------------------------------------------------------------------
LEMMA InitLocks == Init => LockInv
  <1> SUFFICES ASSUME Init PROVE LockInv
    OBVIOUS
  <1>1. \A c \in Calls : ~Keyed(c)
    BY DEF Init, Keyed, Inside
  <1> QED BY <1>1 DEF Init, LockInv, Shape, Counted, Named, Labels

LEMMA BeginStep ==
  ASSUME LockInv, NEW c \in Calls, Begin(c)
  PROVE  LockInv'
  <1> DEFINE k == Key(c)
             e == IF entry[k] = None THEN c ELSE entry[k]
  <1>1. CASE k = ""
    <2>1. ~Keyed(c) /\ call' = [call EXCEPT ![c] = "acquire"] /\ UNCHANGED <<kind, entry, uses, slot>>
      BY <1>1 DEF Begin, Goto, Keyed
    <2>2. \A d \in Calls : Keyed(d) /\ call'[d] \in Holding => d # c /\ call[d] \in Holding
      BY <2>1 DEF LockInv, Shape
    <2> QED BY <1>1, <2>1, <2>2, Moves DEF LockInv, Shape, Counted, Labels
  <1>2. CASE k # ""
    <2>1. k \in Keys
      BY <1>2, KeysOfCalls
    <2>2. e \in Calls /\ e # None /\ Key(e) = k
      BY <2>1, NoneIsNoCall DEF LockInv, Shape, Named
    <2>3. /\ call[c] = "off"
          /\ call' = [call EXCEPT ![c] = "wait"]
          /\ entry' = [entry EXCEPT ![k] = e]
          /\ uses' = [uses EXCEPT ![c] = e]
          /\ UNCHANGED <<kind, slot>>
      BY <1>2 DEF Begin, Goto
    <2>4. \A d \in Calls : Key(d)' = Key(d)
      BY <2>3, KeyStays
    <2>5. \A d \in Calls : call'[d] = IF d = c THEN "wait" ELSE call[d]
      BY <2>3 DEF LockInv, Shape
    <2>6. \A d \in Calls : uses'[d] = IF d = c THEN e ELSE uses[d]
      BY <2>3 DEF LockInv, Shape
    <2>7. \A j \in Keys : entry'[j] = IF j = k THEN e ELSE entry[j]
      BY <2>3 DEF LockInv, Shape
    <2>8. \A d \in Calls : Keyed(d)' <=> Keyed(d) \/ d = c
      BY <1>2, <2>4, <2>5 DEF Keyed, Inside
    <2>9. Shape'
      BY <1>2, <2>2, <2>3, <2>4, <2>5 DEF LockInv, Shape, Labels
    <2>10. Counted'
      <3> SUFFICES ASSUME NEW d \in Calls
                   PROVE  /\ Keyed(d)' => uses'[d] = entry'[Key(d)'] /\ uses'[d] # None
                          /\ ~Keyed(d)' => uses'[d] = None
                          /\ Keyed(d)' /\ call'[d] \in Holding => slot'[uses'[d]] = d
        BY DEF Counted
      <3>1. CASE d = c
        BY <3>1, <2>1, <2>2, <2>4, <2>5, <2>6, <2>7, <2>8 DEF Holding
      <3>2. CASE d # c
        <4>1. Keyed(d)' <=> Keyed(d)
          BY <3>2, <2>8
        <4>2. Key(d) \in Keys \union {""}
          BY KeysOfCalls
        <4>3. Keyed(d) => entry'[Key(d)] = entry[Key(d)]
          BY <4>2, <2>1, <2>7 DEF LockInv, Counted, Keyed
        <4> QED BY <3>2, <4>1, <4>3, <2>3, <2>4, <2>5, <2>6 DEF LockInv, Counted
      <3> QED BY <3>1, <3>2
    <2>11. Named'
      <3> SUFFICES ASSUME NEW j \in Keys, entry'[j] # None
                   PROVE  Key(entry[j])' = j /\ \E d \in Calls : Keyed(d)' /\ Key(d)' = j
        BY DEF Named
      <3>1. CASE j = k
        BY <3>1, <2>1, <2>2, <2>4, <2>7, <2>8
      <3>2. CASE j # k
        <4>1. entry'[j] = entry[j] /\ entry[j] \in Calls
          BY <3>2, <2>7 DEF LockInv, Shape
        <4> QED BY <4>1, <2>4, <2>8 DEF LockInv, Named
      <3> QED BY <3>1, <3>2
    <2> QED BY <2>9, <2>10, <2>11 DEF LockInv
  <1> QED BY <1>1, <1>2

LEMMA LeaveStep ==
  ASSUME LockInv, NEW c \in Calls, Leave(c)
  PROVE  LockInv'
  <1> DEFINE k    == Key(c)
             last == \A d \in Calls \ {c} : uses[d] # uses[c]
  <1>1. /\ call[c] = "leave"
        /\ call' = [call EXCEPT ![c] = "reported"]
        /\ uses' = [uses EXCEPT ![c] = None]
        /\ entry' = IF last THEN [entry EXCEPT ![k] = None] ELSE entry
        /\ UNCHANGED <<kind, slot>>
    BY DEF Leave, Goto
  <1>2. k \in Keys /\ Keyed(c)
    BY <1>1, KeysOfCalls DEF LockInv, Shape, Keyed, Inside
  <1>3. \A d \in Calls : Key(d)' = Key(d)
    BY <1>1, KeyStays
  <1>4. \A d \in Calls : call'[d] = IF d = c THEN "reported" ELSE call[d]
    BY <1>1 DEF LockInv, Shape
  <1>5. \A d \in Calls : uses'[d] = IF d = c THEN None ELSE uses[d]
    BY <1>1 DEF LockInv, Shape
  <1>6. \A j \in Keys : entry'[j] = IF last /\ j = k THEN None ELSE entry[j]
    BY <1>1 DEF LockInv, Shape
  <1>7. \A d \in Calls : Keyed(d)' <=> Keyed(d) /\ d # c
    BY <1>3, <1>4 DEF Keyed, Inside
  <1>8. uses[c] = entry[k] /\ uses[c] # None
    BY <1>2 DEF LockInv, Counted
  <1>9. Shape'
    BY <1>1, <1>3, <1>4 DEF LockInv, Shape, Labels
  <1>10. Counted'
    <2> SUFFICES ASSUME NEW d \in Calls
                 PROVE  /\ Keyed(d)' => uses'[d] = entry'[Key(d)'] /\ uses'[d] # None
                        /\ ~Keyed(d)' => uses'[d] = None
                        /\ Keyed(d)' /\ call'[d] \in Holding => slot'[uses'[d]] = d
      BY DEF Counted
    <2>1. CASE d = c
      BY <2>1, <1>5, <1>7
    <2>2. CASE d # c
      <3>1. Keyed(d) => Key(d) \in Keys
        BY KeysOfCalls DEF Keyed
      <3>2. Keyed(d) => entry'[Key(d)] = entry[Key(d)]
        BY <2>2, <3>1, <1>6, <1>8 DEF LockInv, Counted
      <3> QED BY <2>2, <3>2, <1>1, <1>3, <1>4, <1>5, <1>7 DEF LockInv, Counted
    <2> QED BY <2>1, <2>2
  <1>11. Named'
    <2> SUFFICES ASSUME NEW j \in Keys, entry'[j] # None
                 PROVE  Key(entry[j])' = j /\ \E d \in Calls : Keyed(d)' /\ Key(d)' = j
      BY DEF Named
    <2>1. entry'[j] = entry[j] /\ entry[j] \in Calls /\ ~(last /\ j = k)
      BY <1>6 DEF LockInv, Shape
    <2>2. CASE j # k
      <3>1. PICK d \in Calls : Keyed(d) /\ Key(d) = j
        BY <2>1 DEF LockInv, Named
      <3> QED BY <2>1, <2>2, <3>1, <1>3, <1>7 DEF LockInv, Named
    <2>3. CASE j = k
      <3>1. PICK d \in Calls \ {c} : uses[d] = uses[c]
        BY <2>1, <2>3
      <3>2. Keyed(d) /\ entry[Key(d)] = entry[k]
        BY <3>1, <1>8 DEF LockInv, Counted
      <3>3. Key(d) \in Keys
        BY <3>2, KeysOfCalls DEF Keyed
      <3>4. Key(d) = k
        BY <3>2, <3>3, <1>2, <1>8 DEF LockInv, Named
      <3> QED BY <2>1, <2>3, <3>1, <3>2, <3>4, <1>3, <1>7 DEF LockInv, Named
    <2> QED BY <2>2, <2>3
  <1> QED BY <1>9, <1>10, <1>11 DEF LockInv

(* The calls in one slot are one. *)
LEMMA HoldStep ==
  ASSUME LockInv, NEW c \in Calls, Hold(c)
  PROVE  LockInv'
  <1>1. /\ call[c] = "wait" /\ slot[uses[c]] = None
        /\ slot' = [slot EXCEPT ![uses[c]] = c]
        /\ call' = [call EXCEPT ![c] = "acquire"]
        /\ UNCHANGED <<kind, entry, uses>>
    BY DEF Hold, Goto
  <1>2. Keyed(c) /\ Key(c) # ""
    BY <1>1 DEF LockInv, Shape, Keyed, Inside
  <1>3. uses[c] \in Calls
    BY <1>2 DEF LockInv, Shape, Counted
  <1>4. \A d \in Calls : Keyed(d) /\ call'[d] \in Holding => slot'[uses[d]] = d
    <2> SUFFICES ASSUME NEW d \in Calls, Keyed(d), call'[d] \in Holding
                 PROVE  slot'[uses[d]] = d
      OBVIOUS
    <2>1. CASE d = c
      BY <2>1, <1>1, <1>3 DEF LockInv, Shape
    <2>2. CASE d # c
      <3>1. slot[uses[d]] = d /\ uses[d] \in Calls
        BY <2>2, <1>1 DEF LockInv, Shape, Counted
      <3>2. uses[d] # uses[c]
        BY <3>1, <1>1, NoneIsNoCall
      <3> QED BY <3>1, <3>2, <1>1 DEF LockInv, Shape
    <2> QED BY <2>1, <2>2
  <1>5. slot' \in [Calls -> Calls \union {None}]
    BY <1>1 DEF LockInv, Shape
  <1> QED BY <1>1, <1>2, <1>4, <1>5, Moves DEF Labels, Inside

LEMMA UnlockStep ==
  ASSUME LockInv, NEW c \in Calls, Unlock(c)
  PROVE  LockInv'
  <1>1. /\ call[c] = "unlock"
        /\ slot' = [slot EXCEPT ![uses[c]] = None]
        /\ call' = [call EXCEPT ![c] = "leave"]
        /\ UNCHANGED <<kind, entry, uses>>
    BY DEF Unlock, Goto
  <1>2. Keyed(c) /\ Key(c) # ""
    BY <1>1 DEF LockInv, Shape, Keyed, Inside
  <1>3. slot[uses[c]] = c
    BY <1>1, <1>2 DEF LockInv, Counted, Holding
  <1>4. \A d \in Calls : Keyed(d) /\ call'[d] \in Holding => slot'[uses[d]] = d
    <2> SUFFICES ASSUME NEW d \in Calls, Keyed(d), call'[d] \in Holding
                 PROVE  slot'[uses[d]] = d
      OBVIOUS
    <2>1. d # c /\ call[d] \in Holding
      BY <1>1 DEF LockInv, Shape, Holding
    <2>2. slot[uses[d]] = d /\ uses[d] \in Calls
      BY <2>1 DEF LockInv, Shape, Counted
    <2>3. uses[d] # uses[c]
      BY <2>1, <2>2, <1>3
    <2> QED BY <2>2, <2>3, <1>1 DEF LockInv, Shape
  <1>5. slot' \in [Calls -> Calls \union {None}]
    BY <1>1 DEF LockInv, Shape
  <1> QED BY <1>1, <1>2, <1>4, <1>5, Moves DEF Labels, Inside

(* The other steps of a call move it between places that count alike. *)
LEMMA Turns ==
  ASSUME LockInv, NEW c \in Calls, NEW l \in Labels,
         call' = [call EXCEPT ![c] = l], UNCHANGED <<kind, locks>>,
         Keyed(c) <=> Key(c) # "" /\ l \in Inside,
         l \in {"wait", "unlock", "leave"} => Key(c) # "",
         l \in Holding => call[c] \in Holding
  PROVE  LockInv'
  <1>1. UNCHANGED <<entry, uses, slot>>
    BY DEF locks
  <1>2. \A d \in Calls : call'[d] \in Holding => call[d] \in Holding
    BY DEF LockInv, Shape
  <1> QED BY <1>1, <1>2, Moves DEF LockInv, Shape, Counted

LEMMA CallSteps ==
  ASSUME LockInv, NEW c \in Calls, CallStep(c)
  PROVE  LockInv'
  <1>1. CASE Begin(c)
    BY <1>1, BeginStep
  <1>2. CASE Skip(c)
    BY <1>2, Turns DEF Skip, Goto, Labels, Inside, Holding, Keyed
  <1>3. CASE Hold(c)
    BY <1>3, HoldStep
  <1>4. CASE GiveUp(c)
    BY <1>4, Turns DEF GiveUp, Goto, Labels, Inside, Holding, Keyed, LockInv, Shape
  <1>5. CASE Start(c)
    <2>1. call[c] = "acquire" /\ UNCHANGED <<kind, locks>>
      BY <1>5 DEF Start
    <2>2. CASE call' = [call EXCEPT ![c] = "run"]
      BY <2>1, <2>2, Turns DEF Labels, Inside, Holding, Keyed
    <2>3. CASE call' = [call EXCEPT ![c] = Return_(c)]
      BY <2>1, <2>3, Turns DEF Return_, Labels, Inside, Holding, Keyed
    <2> QED BY <1>5, <2>2, <2>3 DEF Start, Goto
  <1>6. CASE Return(c)
    BY <1>6, Turns DEF Return, Return_, Goto, Labels, Inside, Holding, Keyed
  <1>7. CASE Unlock(c)
    BY <1>7, UnlockStep
  <1>8. CASE Leave(c)
    BY <1>8, LeaveStep
  <1> QED BY <1>1, <1>2, <1>3, <1>4, <1>5, <1>6, <1>7, <1>8 DEF CallStep

LEMMA NextLocks == LockInv /\ [Next]_vars => LockInv'
  <1> SUFFICES ASSUME LockInv, [Next]_vars PROVE LockInv'
    OBVIOUS
  <1>1. ASSUME NEW c \in Calls, CallStep(c) PROVE LockInv'
    BY <1>1, CallSteps
  <1>2. ASSUME NEW r \in Runs, RunStep(r) PROVE LockInv'
    BY <1>2, Idles DEF RunStep, Acquire, Reply, StopRun, BatchEnds
  <1>3. ASSUME NEW n \in Slots, Resize(n) PROVE LockInv'
    BY <1>3, Idles DEF Resize
  <1>4. ASSUME NEW r \in Runs, Cancel(r) \/ Fail(r) PROVE LockInv'
    BY <1>4, Idles DEF Cancel, Fail
  <1>5. CASE UNCHANGED vars
    BY <1>5, Idles DEF vars
  <1> QED BY <1>1, <1>2, <1>3, <1>4, <1>5 DEF Next, Work

(* The locks' entries, slots and counts agree at every step. *)
THEOREM LocksKept == Spec => []LockInv
  BY InitLocks, NextLocks, PTL DEF Spec

(* Calls of one key never run at once, for any batches, cancels and sizes.  *)
THEOREM KeysExclude == Spec => []KeyExclusive
  <1>1. LockInv => KeyExclusive
    <2> SUFFICES ASSUME LockInv, NEW c \in Calls, NEW d \in Calls,
                        call[c] = "run", call[d] = "run", Key(c) # "", Key(c) = Key(d)
                 PROVE  c = d
      BY DEF KeyExclusive
    <2>1. Keyed(c) /\ Keyed(d) /\ call[c] \in Holding /\ call[d] \in Holding
      BY DEF Keyed, Inside, Holding
    <2>2. uses[c] = uses[d]
      BY <2>1 DEF LockInv, Counted
    <2>3. slot[uses[c]] = c /\ slot[uses[d]] = d
      BY <2>1 DEF LockInv, Counted
    <2> QED BY <2>2, <2>3
  <1> QED BY <1>1, LocksKept, PTL

(* A key's entry is there as long as a call uses it, and no longer.         *)
THEOREM KeysAreForgotten == Spec => []KeysForgotten
  <1>1. LockInv => KeysForgotten
    <2> SUFFICES ASSUME LockInv, NEW k \in Keys
                 PROVE  entry[k] # None <=> \E c \in Calls : call[c] \in Inside /\ Key(c) = k
      BY DEF KeysForgotten, Inside
    <2>1. k # ""
      BY DEF Keys
    <2> QED BY <2>1 DEF LockInv, Counted, Named, Keyed
  <1> QED BY <1>1, LocksKept, PTL
=============================================================================
