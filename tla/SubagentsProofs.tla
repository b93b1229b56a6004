--------------------------- MODULE SubagentsProofs ---------------------------
(***************************************************************************)
(* Subagents, for any calls, modes, limits, crashes and cancels: the       *)
(* children in the background stay within the limit and each has a name of *)
(* its own, a call answers when its child has wholly ended, and a canceled *)
(* child tells its parent nothing.                                         *)
(*                                                                         *)
(* The invariant has a part for a call (Tries, Reserved), one for a child  *)
(* (Untouched, Ends) and the limit, the names and the marks; its step is   *)
(* proved action by action.                                                *)
(***************************************************************************)
EXTENDS Subagents, FiniteSetTheorems, WellFoundedInduction, TLAPS

(* A call that waits for its child, a call with a task, a task that ended. *)
Waiting == {"look", "decide", "wait", "answer"}
Had(c) == task[c].status # "none"
Over(c) == task[c].status \notin {"none", "running"}

(* Where threads and calls may stand.                                       *)
Types ==
    /\ TypeOK
    /\ Background \subseteq Calls
    /\ call \in [Calls -> {"idle", "record", "start", "done"} \union Waiting]
    /\ run \in [Kids -> {"off", "claim", "on", "stopped"}]
    /\ ender \in [Enders \X Kids -> {"off", "commit", "refused", "sync", "end"}]
    /\ waiter \in [Calls -> {"none", "waiting", "woken"}]
    /\ seen \in [Calls -> BOOLEAN]
    /\ todo \subseteq Calls /\ boot \subseteq Calls /\ killed \subseteq Calls
    /\ faults \in 0 .. MaxFaults

(* The child of attempt k: the call made it and nothing knows of it yet.    *)
Unknown(k) == run[k] = "off" /\ \A w \in Enders : ender[<<w, k>>] = "off"

(* The children of a call are its first attempts, one more than the crashes *)
(* at most; the newest of a call that has to record it is untouched.        *)
Made(c, n) ==
    /\ \A m \in Attempts : (child[<<c, m>>] = "none") <=> (n < m)
    /\ n <= IF call[c] = "idle" /\ ~Had(c) THEN faults ELSE faults + 1
    /\ call[c] = "record" => n > 0 /\ child[<<c, n>>] = "active" /\ Unknown(<<c, n>>)

(* How many children a call has made. *)
Tries(c) == \E n \in 0 .. MaxFaults + 1 : Made(c, n)

(* Nothing runs or ends a child that was not made. *)
Untouched(k) == child[k] = "none" => Unknown(k)

(* A reservation stands for a call on its way to its task; with the task    *)
(* the child stays, and a call waits for no other.                          *)
Reserved(c) ==
    /\ call[c] = "record" <=> c \in starting
    /\ ~Had(c) => task[c] = NoTask
    /\ call[c] = "record" => ~Had(c)
    /\ call[c] \in {"start"} \union Waiting => Had(c)
    /\ ~up => call[c] \in {"idle", "done"} /\ exec = "off"
    /\ c \in todo => Had(c)
    /\ Had(c) => child[Kid(c)] \in {"active"} \union Terminal
    /\ seen[c] => Had(c) /\ child[Kid(c)] \in Terminal
    /\ call[c] = "answer" => child[Kid(c)] \in Terminal

(* A thread between its begin and its end is listed; past its commit the    *)
(* run ended.  A cancel of the run ended the task before the child's run.   *)
Ends(k) ==
    /\ \A w \in Enders : /\ ender[<<w, k>>] # "off" => w \in ending[k]
                         /\ ender[<<w, k>>] \in {"sync", "end"} => child[k] \in Terminal
    /\ ender[<<"stop", k>>] # "off" => Over(k[1])
    /\ ender[<<"kill", k>>] # "off" => k[1] \in killed
    /\ child[k] = "canceled" => k[1] \in killed \/ Over(k[1])
    /\ call[k[1]] = "answer" /\ k = Kid(k[1]) => \A w \in Enders : ender[<<w, k>>] \notin {"sync", "end"}

(* Reservations count for the limit, and hold their names. *)
Limited == Cardinality((ActiveTasks \union starting) \intersect Background) <= Limit

Given == starting \union {c \in Calls : Had(c)}
Distinct == \A c, d \in Given : c # d => name[c] # name[d]

(* The inductive invariant of the starts and the ends. *)
IInv == /\ Types
        /\ \A c \in Calls : Tries(c) /\ Reserved(c)
        /\ \A k \in Kids : Untouched(k) /\ Ends(k)
        /\ Limited /\ Distinct /\ CanceledIsNoEvent

-----------------------------------------------------------------------------
(* What the model's operators return.                                       *)

(* A set of numbers that is not empty has a least one.                      *)
LEMMA LeastExists ==
    ASSUME NEW T \in SUBSET Nat, T # {}
    PROVE  \E x \in T : \A y \in T : x <= y
<1>1. PICK x \in T : \A y \in T : ~(<<y, x>> \in OpToRel(<, Nat))
  BY NatLessThanWellFounded, WFMin
<1>2. ASSUME NEW y \in T PROVE x <= y
  <2>1. ~(y < x)
    BY <1>1 DEF OpToRel
  <2>2. QED
    BY <2>1
<1>3. QED
  BY <1>2

(* As long as a call has neither a reservation nor a task, a name is free.  *)
LEMMA NameIsFree ==
    ASSUME Types, NEW c \in Calls, c \notin Given, \A d \in Calls : Reserved(d)
    PROVE  \E n \in Free : \A m \in Free : n <= m
<1>1. IsFiniteSet(Calls) /\ Cardinality(Calls) \in Nat
  BY CallsAssumption, FS_CardinalityType
<1>2. /\ IsFiniteSet(Calls \ {c}) /\ Cardinality(Calls \ {c}) = Cardinality(Calls) - 1
  BY <1>1, FS_RemoveElement
<1>3. Given \in SUBSET (Calls \ {c})
  BY DEF Given, Types, TypeOK
<1>4. IsFiniteSet(Given) /\ Cardinality(Given) <= Cardinality(Calls) - 1 /\ Cardinality(Given) \in Nat
  BY <1>2, <1>3, FS_Subset, FS_CardinalityType
<1>5. IsFiniteSet(Names) /\ Cardinality(Names) = Cardinality(Calls)
  <2>1. IsFiniteSet(1 .. Cardinality(Calls)) /\ Cardinality(1 .. Cardinality(Calls)) =
           IF 1 > Cardinality(Calls) THEN 0 ELSE Cardinality(Calls) - 1 + 1
    BY <1>1, FS_Interval
  <2>2. QED
    BY <1>1, <2>1 DEF Names
<1>6. Given = starting \union {q \in Calls : task[q] # NoTask}
  BY DEF Given, Had, Reserved, NoTask
<1>7. Free # {}
  <2>1. SUFFICES ASSUME Free = {} PROVE FALSE
    OBVIOUS
  <2>2. \A n \in Names : \E d \in Given : name[d] = n
    BY <1>6, <2>1 DEF Free
  <2> DEFINE f == [n \in Names |-> CHOOSE d \in Given : name[d] = n]
  <2>3. \A n \in Names : f[n] \in Given /\ name[f[n]] = n
    BY <2>2
  <2>4. f \in [Names -> Given]
    BY <2>3
  <2> HIDE DEF f
  <2>5. Cardinality(Given) < Cardinality(Names)
    BY <1>1, <1>4, <1>5
  <2>6. \E x, y \in Names : x # y /\ f[x] = f[y]
    BY <1>4, <1>5, <2>4, <2>5, FS_PigeonHole
  <2>7. QED
    BY <2>3, <2>6
<1>8. Free \in SUBSET Nat
  BY <1>1 DEF Free, Names
<1>9. QED
  BY <1>7, <1>8, LeastExists

(* The next attempt follows those made.                                     *)
LEMMA NextIsNext ==
    ASSUME NEW c \in Calls, NEW n \in 0 .. MaxFaults, Made(c, n)
    PROVE  NextAttempt(c) = n + 1
<1> DEFINE P(m) == child[<<c, m>>] = "none" /\ \A i \in 1 .. m - 1 : child[<<c, i>>] # "none"
<1>1. n + 1 \in Attempts /\ P(n + 1)
  BY BoundAssumption DEF Made, Attempts
<1>2. ASSUME NEW m \in Attempts, P(m) PROVE m = n + 1
  <2>1. n < m
    BY <1>2 DEF Made
  <2>2. ~(n + 1 \in 1 .. m - 1)
    BY <1>1, <1>2
  <2>3. QED
    BY <2>1, <2>2, BoundAssumption DEF Attempts
<1>3. QED
  BY <1>1, <1>2 DEF NextAttempt

(* The newest is the last of them.                                          *)
LEMMA NewestIsLast ==
    ASSUME NEW c \in Calls, NEW n \in Attempts, Made(c, n)
    PROVE  Newest(c) = n
<1> DEFINE P(m) == child[<<c, m>>] # "none" /\ \A i \in Attempts : i > m => child[<<c, i>>] = "none"
<1>1. P(n)
  BY BoundAssumption DEF Made, Attempts
<1>2. ASSUME NEW m \in Attempts, P(m) PROVE m = n
  <2>1. ~(n < m)
    BY <1>2 DEF Made
  <2>2. ~(n > m)
    BY <1>1, <1>2
  <2>3. QED
    BY <2>1, <2>2, BoundAssumption DEF Attempts
<1>3. QED
  BY <1>1, <1>2 DEF Newest

(* A call's child is one of its own.                                        *)
LEMMA KidTyped ==
    ASSUME Types, NEW c \in Calls
    PROVE  Kid(c) \in Kids /\ Kid(c)[1] = c /\ Kid(c) = <<c, task[c].kid>> /\ task[c].kid \in Attempts
BY DEF Kid, Kids, Types, TypeOK

(* No task is forgotten, run again or given another child.                  *)
TaskKept ==
    \A c \in Calls : /\ Kid(c)' = Kid(c)
                     /\ Had(c)' <=> Had(c)
                     /\ Over(c) => Over(c)'
                     /\ ~Had(c) => task'[c] = task[c]

(* A step that leaves the tasks alone keeps them. *)
LEMMA SameTask ==
    ASSUME UNCHANGED task
    PROVE  TaskKept /\ ActiveTasks' = ActiveTasks
BY DEF TaskKept, Kid, Had, Over, ActiveTasks

(* Ending a task ends that one, and only while it runs.                     *)
LEMMA FinishedTask ==
    ASSUME Types, NEW c \in Calls, NEW s \in Terminal, NEW b \in BOOLEAN, task' = Finished(c, s, b)
    PROVE  /\ task' \in [Calls -> [status : {"none", "running"} \union Terminal, kid : Attempts,
                                   delivered : BOOLEAN]]
           /\ TaskKept
           /\ ActiveTasks' \subseteq ActiveTasks
           /\ \A d \in Calls : d # c \/ task[d].status # "running" => task'[d] = task[d]
           /\ task[c].status = "running" => task'[c].status = s /\ task'[c].delivered = b
           /\ Had(c) => Over(c)'
<1>1. task \in [Calls -> [status : {"none", "running"} \union Terminal, kid : Attempts, delivered : BOOLEAN]]
  BY DEF Types, TypeOK
<1>2. CASE task[c].status = "running"
  <2>1. task' = [task EXCEPT ![c].status = s, ![c].delivered = b]
    BY <1>2 DEF Finished
  <2>2. /\ task'[c] = [task[c] EXCEPT !.status = s, !.delivered = b]
        /\ \A d \in Calls : d # c => task'[d] = task[d]
        /\ DOMAIN task' = Calls /\ task' = [d \in Calls |-> task'[d]]
    BY <1>1, <2>1
  <2>3. /\ task'[c] \in [status : {"none", "running"} \union Terminal, kid : Attempts, delivered : BOOLEAN]
        /\ task'[c].status = s /\ task'[c].kid = task[c].kid /\ task'[c].delivered = b
    <3>1. task[c] \in [status : {"none", "running"} \union Terminal, kid : Attempts, delivered : BOOLEAN]
      BY <1>1
    <3>2. s \in {"none", "running"} \union Terminal
      OBVIOUS
    <3>3. task'[c] = [task[c] EXCEPT !.status = s, !.delivered = b]
      BY <2>2
    <3>4. QED
      BY <3>1, <3>2, <3>3
  <2>4. \A d \in Calls : task'[d].kid = task[d].kid
    BY <2>2, <2>3
  <2>5. TaskKept
    BY <1>2, <2>2, <2>3, <2>4 DEF TaskKept, Kid, Had, Over, Terminal
  <2>6. ActiveTasks' \subseteq ActiveTasks
    BY <1>2, <2>2 DEF ActiveTasks
  <2>7. Over(c)'
    BY <2>3 DEF Over, Terminal
  <2>8. task' \in [Calls -> [status : {"none", "running"} \union Terminal, kid : Attempts, delivered : BOOLEAN]]
    BY <1>1, <2>2, <2>3
  <2>9. QED
    BY <1>2, <2>2, <2>3, <2>5, <2>6, <2>7, <2>8
<1>3. CASE task[c].status # "running"
  <2>1. task' = task
    BY <1>3 DEF Finished
  <2>2. QED
    BY <1>1, <1>3, <2>1, SameTask DEF Had, Over
<1>4. QED
  BY <1>2, <1>3

(* No more background children than before.                                 *)
LEMMA StaysLimited ==
    ASSUME Types, Limited, UNCHANGED Background, (ActiveTasks \union starting)' \subseteq ActiveTasks \union starting
    PROVE  Limited'
<1> DEFINE S == (ActiveTasks \union starting) \intersect Background
<1>1. S \subseteq Calls /\ S' \in SUBSET S
  BY DEF Types, TypeOK, ActiveTasks
<1>2. IsFiniteSet(S)
  BY <1>1, CallsAssumption, FS_Subset
<1>3. Cardinality(S) \in Nat /\ Cardinality(S') \in Nat /\ Cardinality(S') <= Cardinality(S)
  BY <1>1, <1>2, FS_Subset, FS_CardinalityType
<1>4. QED
  BY <1>3, BoundAssumption DEF Limited

(* The names given stay distinct when none is given.                        *)
LEMMA StaysDistinct ==
    ASSUME Types, Distinct, TaskKept, UNCHANGED name, starting' \subseteq starting
    PROVE  Distinct'
<1>1. Given' \subseteq Given
  BY DEF Given, TaskKept
<1>2. QED
  BY <1>1 DEF Distinct

(* The tries of a call stay counted while its children stay made.           *)
LEMMA StaysTried ==
    ASSUME Types, NEW c \in Calls, Tries(c), TaskKept,
           \A m \in Attempts : (child'[<<c, m>>] = "none") <=> (child[<<c, m>>] = "none"),
           faults' \in Nat /\ faults <= faults',
           call'[c] = "record" =>
              /\ call[c] = "record"
              /\ \A m \in Attempts : child[<<c, m>>] = "active" /\ Unknown(<<c, m>>)
                                       => child'[<<c, m>>] = "active" /\ Unknown(<<c, m>>)',
           call'[c] = "idle" => call[c] = "idle" \/ faults < faults'
    PROVE  Tries(c)'
<1>1. PICK n \in 0 .. MaxFaults + 1 : Made(c, n)
  BY DEF Tries
<1>2. faults \in Nat /\ n \in Nat /\ (Had(c)' <=> Had(c))
  BY BoundAssumption DEF Types, TaskKept
<1>3. \A m \in Attempts : (child'[<<c, m>>] = "none") <=> (n < m)
  BY <1>1 DEF Made
<1>4. n <= IF call'[c] = "idle" /\ ~Had(c)' THEN faults' ELSE faults' + 1
  BY <1>1, <1>2 DEF Made
<1>5. call'[c] = "record" => n > 0 /\ child'[<<c, n>>] = "active" /\ Unknown(<<c, n>>)'
  <2>1. ASSUME call'[c] = "record" PROVE n > 0 /\ child[<<c, n>>] = "active" /\ Unknown(<<c, n>>) /\ n \in Attempts
    BY <1>1, <1>2, <2>1, BoundAssumption DEF Made, Attempts
  <2>2. QED
    BY <2>1
<1>6. Made(c, n)'
  BY <1>3, <1>4, <1>5 DEF Made
<1>7. QED
  BY <1>6 DEF Tries

(* Nothing that is done to another call or kid disturbs an end.             *)
LEMMA StaysEnding ==
    ASSUME Types, NEW k \in Kids, Ends(k), TaskKept, k[1] \in Calls,
           ending'[k] = ending[k], \A w \in Enders : ender'[<<w, k>>] = ender[<<w, k>>],
           child'[k] = child[k] \/ (child[k] \notin Terminal /\ child'[k] \notin Terminal),
           killed \subseteq killed', call'[k[1]] = "answer" => call[k[1]] = "answer"
    PROVE  Ends(k)'
BY DEF Ends, TaskKept, Terminal, Enders

(* A thread that ends a child moves on, the others stay.                    *)
LEMMA AtSets ==
    ASSUME Types, NEW w \in Enders, NEW k \in Kids, NEW l \in {"off", "commit", "refused", "sync", "end"},
           ender' = [ender EXCEPT ![<<w, k>>] = l]
    PROVE  /\ ender' \in [Enders \X Kids -> {"off", "commit", "refused", "sync", "end"}]
           /\ \A v \in Enders, j \in Kids : ender'[<<v, j>>] = IF v = w /\ j = k THEN l ELSE ender[<<v, j>>]
BY DEF Types

-----------------------------------------------------------------------------
(* Every step keeps it: the starts and answers of calls, the threads that   *)
(* end children, cancels, crashes and recovery.                             *)
LEMMA InvStep == IInv /\ [Next]_vars => IInv'
<1> SUFFICES ASSUME IInv, [Next]_vars PROVE IInv'
  OBVIOUS
<1>1. Types /\ Limited /\ Distinct /\ CanceledIsNoEvent
  BY DEF IInv
<1>2. \A c \in Calls : Tries(c)
  BY DEF IInv
<1>3. \A c \in Calls : Reserved(c)
  BY DEF IInv
<1>4. \A k \in Kids : Untouched(k)
  BY DEF IInv
<1>5. \A k \in Kids : Ends(k)
  BY DEF IInv
<1>6. \A c \in Calls : Kid(c) \in Kids /\ Kid(c)[1] = c /\ Kid(c) = <<c, task[c].kid>> /\ task[c].kid \in Attempts
  BY <1>1, KidTyped
<1>7. \A k \in Kids : k[1] \in Calls /\ k[2] \in Attempts /\ k = <<k[1], k[2]>>
  BY DEF Kids
<1>8. \A c \in Calls, m \in Attempts : <<c, m>> \in Kids
  BY DEF Kids
<1>9. CASE Next
  <2>1. ASSUME NEW d \in Calls, d \in Background /\ Full, StartSubagent(d) PROVE IInv'
    <3>1. TaskKept /\ ActiveTasks' = ActiveTasks
      BY <2>1, SameTask DEF StartSubagent
    <3>2. Types'
      <4>1. call' \in [Calls -> {"idle", "record", "start", "done"} \union Waiting]
        BY <1>1, <1>6, <2>1, <3>1 DEF StartSubagent, Goto, Types, Waiting
      <4>2. starting' \subseteq Calls
        BY <1>1, <1>6, <2>1, <3>1 DEF StartSubagent, Types, TypeOK
      <4>3. name' \in [Calls -> 0 .. Cardinality(Calls)]
        BY <1>1, <1>6, <2>1, <3>1 DEF StartSubagent, Types, TypeOK
      <4>4. child' \in [Kids -> {"none", "active", "deleted"} \union Terminal]
        BY <1>1, <1>6, <2>1, <3>1 DEF StartSubagent, Types, TypeOK
      <4>5. QED
        BY <1>1, <2>1, <3>1, <4>1, <4>2, <4>3, <4>4 DEF StartSubagent, Types, TypeOK
    <3>3. ASSUME NEW c \in Calls PROVE Tries(c)'
      BY <1>1, <1>2, <1>8, <2>1, <3>1, StaysTried DEF StartSubagent, Goto, Types, Unknown
    <3>4. ASSUME NEW c \in Calls PROVE Reserved(c)'
      BY <1>1, <1>3, <1>6, <2>1, <3>1 DEF StartSubagent, Goto, Reserved, TaskKept, Waiting, Types
    <3>5. ASSUME NEW k \in Kids PROVE Untouched(k)'
      BY <1>1, <1>4, <2>1, <3>1 DEF StartSubagent, Untouched, Unknown
    <3>6. ASSUME NEW k \in Kids PROVE Ends(k)'
      <4>1. Ends(k) /\ k[1] \in Calls
        BY <1>5, <1>7
      <4>2. ending'[k] = ending[k] /\ \A v \in Enders : ender'[<<v, k>>] = ender[<<v, k>>]
        BY <1>1, <2>1, <4>1, <3>1 DEF StartSubagent
      <4>3. child'[k] = child[k] /\ killed \subseteq killed'
        BY <1>1, <2>1, <4>1, <3>1 DEF StartSubagent
      <4>4. call'[k[1]] = "answer" => call[k[1]] = "answer"
        BY <1>1, <2>1, <4>1, <3>1 DEF StartSubagent, Goto, Types
      <4>5. QED
        BY <1>1, <4>1, <4>2, <4>3, <4>4, <3>1, StaysEnding
    <3>7. Limited'
      BY <1>1, <2>1, <3>1, StaysLimited DEF StartSubagent
    <3>8. Distinct'
      BY <1>1, <2>1, <3>1, StaysDistinct DEF StartSubagent
    <3>9. CanceledIsNoEvent'
      BY <1>1, <2>1, <3>1 DEF StartSubagent, CanceledIsNoEvent
    <3>10. QED
      BY <3>2, <3>3, <3>4, <3>5, <3>6, <3>7, <3>8, <3>9 DEF IInv
  <2>2. ASSUME NEW d \in Calls, Rejoin(d) PROVE IInv'
    <3>1. TaskKept /\ ActiveTasks' = ActiveTasks
      BY <2>2, SameTask DEF Rejoin
    <3>2. Types'
      <4>1. call' \in [Calls -> {"idle", "record", "start", "done"} \union Waiting]
        BY <1>1, <1>6, <2>2, <3>1 DEF Rejoin, Goto, Types, Waiting
      <4>2. waiter' \in [Calls -> {"none", "waiting", "woken"}]
        BY <1>1, <1>6, <2>2, <3>1 DEF Rejoin, Types
      <4>3. QED
        BY <1>1, <2>2, <3>1, <4>1, <4>2 DEF Rejoin, Types, TypeOK
    <3>3. ASSUME NEW c \in Calls PROVE Tries(c)'
      BY <1>1, <1>2, <1>8, <2>2, <3>1, StaysTried DEF Rejoin, Goto, Types, Unknown
    <3>4. ASSUME NEW c \in Calls PROVE Reserved(c)'
      BY <1>1, <1>3, <1>6, <2>2, <3>1 DEF Rejoin, Goto, Reserved, TaskKept, Types
    <3>5. ASSUME NEW k \in Kids PROVE Untouched(k)'
      BY <1>1, <1>4, <2>2, <3>1 DEF Rejoin, Untouched, Unknown
    <3>6. ASSUME NEW k \in Kids PROVE Ends(k)'
      <4>1. Ends(k) /\ k[1] \in Calls
        BY <1>5, <1>7
      <4>2. ending'[k] = ending[k] /\ \A v \in Enders : ender'[<<v, k>>] = ender[<<v, k>>]
        BY <1>1, <2>2, <4>1, <3>1 DEF Rejoin
      <4>3. child'[k] = child[k] /\ killed \subseteq killed'
        BY <1>1, <2>2, <4>1, <3>1 DEF Rejoin
      <4>4. call'[k[1]] = "answer" => call[k[1]] = "answer"
        BY <1>1, <2>2, <4>1, <3>1 DEF Rejoin, Goto, Types
      <4>5. QED
        BY <1>1, <4>1, <4>2, <4>3, <4>4, <3>1, StaysEnding
    <3>7. Limited'
      BY <1>1, <2>2, <3>1, StaysLimited DEF Rejoin
    <3>8. Distinct'
      BY <1>1, <2>2, <3>1, StaysDistinct DEF Rejoin
    <3>9. CanceledIsNoEvent'
      BY <1>1, <2>2, <3>1 DEF Rejoin, CanceledIsNoEvent
    <3>10. QED
      BY <3>2, <3>3, <3>4, <3>5, <3>6, <3>7, <3>8, <3>9 DEF IInv
  <2>3. ASSUME NEW d \in Calls, StartChild(d) PROVE IInv'
    <3>1. TaskKept /\ ActiveTasks' = ActiveTasks
      BY <2>3, SameTask DEF StartChild
    <3>2. Had(d) /\ call[d] # "record" /\ child[Kid(d)] # "none" /\ Kid(d) \in Kids /\ Kid(d)[1] = d
      BY <1>1, <1>3, <1>6, <2>3 DEF StartChild, Reserved, Terminal
    <3>3. /\ \A k \in Kids : k # Kid(d) => run'[k] = run[k]
          /\ UNCHANGED <<child, ender>> /\ call'[d] # "record" /\ \A c \in Calls : c # d => call'[c] = call[c]
      BY <1>1, <2>3 DEF StartChild, Goto, Types
    <3>4. Types'
      <4>1. call' \in [Calls -> {"idle", "record", "start", "done"} \union Waiting]
        BY <1>1, <1>6, <2>3, <3>1, <3>2, <3>3 DEF StartChild, Goto, Types, Waiting
      <4>2. run' \in [Kids -> {"off", "claim", "on", "stopped"}]
        BY <1>1, <1>6, <2>3, <3>1, <3>2, <3>3 DEF StartChild, Types
      <4>3. waiter' \in [Calls -> {"none", "waiting", "woken"}]
        BY <1>1, <1>6, <2>3, <3>1, <3>2, <3>3 DEF StartChild, Types
      <4>4. QED
        BY <1>1, <2>3, <3>1, <3>2, <3>3, <4>1, <4>2, <4>3 DEF StartChild, Types, TypeOK
    <3>5. ASSUME NEW c \in Calls PROVE Tries(c)'
      <4>1. ASSUME c # d, NEW m \in Attempts, Unknown(<<c, m>>) PROVE Unknown(<<c, m>>)'
        BY <1>6, <1>8, <3>2, <3>3, <4>1 DEF Unknown
      <4>2. call'[c] = "record" => c # d /\ call[c] = "record"
        BY <3>3
      <4>3. call'[c] = "idle" => call[c] = "idle"
        BY <1>1, <2>3 DEF StartChild, Goto, Types
      <4>4. UNCHANGED <<child, faults>> /\ faults \in Nat
        BY <1>1, <2>3 DEF StartChild, Types
      <4>5. QED
        BY <1>1, <1>2, <3>1, <4>1, <4>2, <4>3, <4>4, StaysTried
    <3>6. ASSUME NEW c \in Calls PROVE Reserved(c)'
      BY <1>1, <1>3, <1>6, <2>3, <3>1, <3>2, <3>3 DEF StartChild, Goto, Reserved, TaskKept, Types, Terminal
    <3>7. ASSUME NEW k \in Kids PROVE Untouched(k)'
      BY <1>4, <3>2, <3>3 DEF Untouched, Unknown
    <3>8. ASSUME NEW k \in Kids PROVE Ends(k)'
      <4>1. Ends(k) /\ k[1] \in Calls
        BY <1>5, <1>7
      <4>2. ending'[k] = ending[k] /\ \A v \in Enders : ender'[<<v, k>>] = ender[<<v, k>>]
        BY <1>1, <2>3, <4>1, <3>1, <3>2, <3>3 DEF StartChild
      <4>3. child'[k] = child[k] /\ killed \subseteq killed'
        BY <1>1, <2>3, <4>1, <3>1, <3>2, <3>3 DEF StartChild
      <4>4. call'[k[1]] = "answer" => call[k[1]] = "answer"
        BY <1>1, <2>3, <4>1, <3>1, <3>2, <3>3 DEF StartChild, Goto, Types
      <4>5. QED
        BY <1>1, <4>1, <4>2, <4>3, <4>4, <3>1, <3>2, <3>3, StaysEnding
    <3>9. Limited'
      BY <1>1, <2>3, <3>1, <3>2, <3>3, StaysLimited DEF StartChild
    <3>10. Distinct'
      BY <1>1, <2>3, <3>1, <3>2, <3>3, StaysDistinct DEF StartChild
    <3>11. CanceledIsNoEvent'
      BY <1>1, <2>3, <3>1, <3>2, <3>3 DEF StartChild, CanceledIsNoEvent
    <3>12. QED
      BY <3>4, <3>5, <3>6, <3>7, <3>8, <3>9, <3>10, <3>11 DEF IInv
  <2>4. ASSUME NEW d \in Calls, Look(d) PROVE IInv'
    <3>1. TaskKept /\ ActiveTasks' = ActiveTasks
      BY <2>4, SameTask DEF Look
    <3>2. Types'
      <4>1. call' \in [Calls -> {"idle", "record", "start", "done"} \union Waiting]
        BY <1>1, <1>6, <2>4, <3>1 DEF Look, Goto, Types, Waiting
      <4>2. seen' \in [Calls -> BOOLEAN]
        BY <1>1, <1>6, <2>4, <3>1 DEF Look, Types
      <4>3. QED
        BY <1>1, <2>4, <3>1, <4>1, <4>2 DEF Look, Types, TypeOK
    <3>3. ASSUME NEW c \in Calls PROVE Tries(c)'
      BY <1>1, <1>2, <1>8, <2>4, <3>1, StaysTried DEF Look, Goto, Types, Unknown
    <3>4. ASSUME NEW c \in Calls PROVE Reserved(c)'
      BY <1>1, <1>3, <1>6, <2>4, <3>1 DEF Look, Goto, Reserved, TaskKept, Types
    <3>5. ASSUME NEW k \in Kids PROVE Untouched(k)'
      BY <1>1, <1>4, <2>4, <3>1 DEF Look, Untouched, Unknown
    <3>6. ASSUME NEW k \in Kids PROVE Ends(k)'
      <4>1. Ends(k) /\ k[1] \in Calls
        BY <1>5, <1>7
      <4>2. ending'[k] = ending[k] /\ \A v \in Enders : ender'[<<v, k>>] = ender[<<v, k>>]
        BY <1>1, <2>4, <4>1, <3>1 DEF Look
      <4>3. child'[k] = child[k] /\ killed \subseteq killed'
        BY <1>1, <2>4, <4>1, <3>1 DEF Look
      <4>4. call'[k[1]] = "answer" => call[k[1]] = "answer"
        BY <1>1, <2>4, <4>1, <3>1 DEF Look, Goto
      <4>5. QED
        BY <1>1, <4>1, <4>2, <4>3, <4>4, <3>1, StaysEnding
    <3>7. Limited'
      BY <1>1, <2>4, <3>1, StaysLimited DEF Look
    <3>8. Distinct'
      BY <1>1, <2>4, <3>1, StaysDistinct DEF Look
    <3>9. CanceledIsNoEvent'
      BY <1>1, <2>4, <3>1 DEF Look, CanceledIsNoEvent
    <3>10. QED
      BY <3>2, <3>3, <3>4, <3>5, <3>6, <3>7, <3>8, <3>9 DEF IInv
  <2>5. ASSUME NEW d \in Calls, Decide(d) PROVE IInv'
    <3>1. TaskKept /\ ActiveTasks' = ActiveTasks
      BY <2>5, SameTask DEF Decide
    <3>2. Types'
      <4>1. call' \in [Calls -> {"idle", "record", "start", "done"} \union Waiting]
        BY <1>1, <1>6, <2>5, <3>1 DEF Decide, Goto, Types, Waiting
      <4>2. waiter' \in [Calls -> {"none", "waiting", "woken"}]
        BY <1>1, <1>6, <2>5, <3>1 DEF Decide, Types
      <4>3. seen' \in [Calls -> BOOLEAN]
        BY <1>1, <1>6, <2>5, <3>1 DEF Decide, Types
      <4>4. QED
        BY <1>1, <2>5, <3>1, <4>1, <4>2, <4>3 DEF Decide, Types, TypeOK
    <3>3. ASSUME NEW c \in Calls PROVE Tries(c)'
      BY <1>1, <1>2, <1>8, <2>5, <3>1, StaysTried DEF Decide, Goto, Types, Unknown
    <3>4. ASSUME NEW c \in Calls PROVE Reserved(c)'
      BY <1>1, <1>3, <1>6, <2>5, <3>1 DEF Decide, Goto, Reserved, TaskKept, Types
    <3>5. ASSUME NEW k \in Kids PROVE Untouched(k)'
      BY <1>1, <1>4, <2>5, <3>1 DEF Decide, Untouched, Unknown
    <3>6. ASSUME NEW k \in Kids PROVE Ends(k)'
      <4>1. Ends(k) /\ k[1] \in Calls
        BY <1>5, <1>7
      <4>2. UNCHANGED <<ending, ender, child, killed>>
        BY <2>5 DEF Decide
      <4>3. CASE call'[k[1]] = "answer" /\ k = Kid(k[1]) /\ call[k[1]] # "answer"
        <5>1. k[1] = d /\ ending[k] = {}
          BY <1>1, <2>5, <4>1, <4>3 DEF Decide, Goto
        <5>2. \A w \in Enders : ender'[<<w, k>>] = "off"
          BY <4>1, <4>2, <5>1 DEF Ends
        <5>3. QED
          BY <4>1, <4>2, <5>2, <3>1 DEF Ends, TaskKept
      <4>4. CASE ~(call'[k[1]] = "answer" /\ k = Kid(k[1]) /\ call[k[1]] # "answer")
        BY <4>1, <4>2, <4>4, <3>1 DEF Ends, TaskKept
      <4>5. QED
        BY <4>3, <4>4
    <3>7. Limited'
      BY <1>1, <2>5, <3>1, StaysLimited DEF Decide
    <3>8. Distinct'
      BY <1>1, <2>5, <3>1, StaysDistinct DEF Decide
    <3>9. CanceledIsNoEvent'
      BY <1>1, <2>5, <3>1 DEF Decide, CanceledIsNoEvent
    <3>10. QED
      BY <3>2, <3>3, <3>4, <3>5, <3>6, <3>7, <3>8, <3>9 DEF IInv
  <2>6. ASSUME NEW d \in Calls, Woken(d) PROVE IInv'
    <3>1. TaskKept /\ ActiveTasks' = ActiveTasks
      BY <2>6, SameTask DEF Woken
    <3>2. Types'
      <4>1. call' \in [Calls -> {"idle", "record", "start", "done"} \union Waiting]
        BY <1>1, <1>6, <2>6, <3>1 DEF Woken, Goto, Types, Waiting
      <4>2. waiter' \in [Calls -> {"none", "waiting", "woken"}]
        <5>1. \E l \in {"none", "waiting"} : waiter' = [waiter EXCEPT ![d] = l]
          BY <2>6 DEF Woken
        <5>2. QED
          BY <1>1, <5>1 DEF Types
      <4>3. QED
        BY <1>1, <2>6, <3>1, <4>1, <4>2 DEF Woken, Types, TypeOK
    <3>3. ASSUME NEW c \in Calls PROVE Tries(c)'
      BY <1>1, <1>2, <1>8, <2>6, <3>1, StaysTried DEF Woken, Goto, Types, Unknown
    <3>4. ASSUME NEW c \in Calls PROVE Reserved(c)'
      BY <1>1, <1>3, <1>6, <2>6, <3>1 DEF Woken, Goto, Reserved, TaskKept, Types
    <3>5. ASSUME NEW k \in Kids PROVE Untouched(k)'
      BY <1>1, <1>4, <2>6, <3>1 DEF Woken, Untouched, Unknown
    <3>6. ASSUME NEW k \in Kids PROVE Ends(k)'
      <4>1. Ends(k) /\ k[1] \in Calls
        BY <1>5, <1>7
      <4>2. ending'[k] = ending[k] /\ \A v \in Enders : ender'[<<v, k>>] = ender[<<v, k>>]
        BY <1>1, <2>6, <4>1, <3>1 DEF Woken
      <4>3. child'[k] = child[k] /\ killed \subseteq killed'
        BY <1>1, <2>6, <4>1, <3>1 DEF Woken
      <4>4. call'[k[1]] = "answer" => call[k[1]] = "answer"
        BY <1>1, <2>6, <4>1, <3>1 DEF Woken, Goto, Types
      <4>5. QED
        BY <1>1, <4>1, <4>2, <4>3, <4>4, <3>1, StaysEnding
    <3>7. Limited'
      BY <1>1, <2>6, <3>1, StaysLimited DEF Woken
    <3>8. Distinct'
      BY <1>1, <2>6, <3>1, StaysDistinct DEF Woken
    <3>9. CanceledIsNoEvent'
      BY <1>1, <2>6, <3>1 DEF Woken, CanceledIsNoEvent
    <3>10. QED
      BY <3>2, <3>3, <3>4, <3>5, <3>6, <3>7, <3>8, <3>9 DEF IInv
  <2>7. ASSUME NEW d \in Calls, Answer(d) PROVE IInv'
    <3>1. /\ child[Kid(d)] \in Terminal /\ task' = Finished(d, child[Kid(d)], TRUE)
          /\ task' \in [Calls -> [status : {"none", "running"} \union Terminal, kid : Attempts, delivered : BOOLEAN]]
          /\ TaskKept /\ ActiveTasks' \subseteq ActiveTasks
      BY <1>1, <1>3, <2>7, FinishedTask DEF Answer, Reserved
    <3>2. Types'
      <4>1. call' \in [Calls -> {"idle", "record", "start", "done"} \union Waiting]
        BY <1>1, <1>6, <2>7, <3>1 DEF Answer, Goto, Types
      <4>2. task' \in [Calls -> [status : {"none", "running"} \union Terminal, kid : Attempts, delivered : BOOLEAN]]
        BY <1>1, <1>6, <2>7, <3>1 DEF Answer
      <4>3. QED
        BY <1>1, <2>7, <3>1, <4>1, <4>2 DEF Answer, Types, TypeOK
    <3>3. ASSUME NEW c \in Calls PROVE Tries(c)'
      BY <1>1, <1>2, <1>8, <2>7, <3>1, StaysTried DEF Answer, Goto, Types, Unknown
    <3>4. ASSUME NEW c \in Calls PROVE Reserved(c)'
      BY <1>1, <1>3, <1>6, <2>7, <3>1 DEF Answer, Goto, Reserved, TaskKept, Types
    <3>5. ASSUME NEW k \in Kids PROVE Untouched(k)'
      BY <1>1, <1>4, <2>7, <3>1 DEF Answer, Untouched, Unknown
    <3>6. ASSUME NEW k \in Kids PROVE Ends(k)'
      <4>1. Ends(k) /\ k[1] \in Calls
        BY <1>5, <1>7
      <4>2. ending'[k] = ending[k] /\ \A v \in Enders : ender'[<<v, k>>] = ender[<<v, k>>]
        BY <1>1, <2>7, <4>1, <3>1 DEF Answer
      <4>3. child'[k] = child[k] /\ killed \subseteq killed'
        BY <1>1, <2>7, <4>1, <3>1 DEF Answer
      <4>4. call'[k[1]] = "answer" => call[k[1]] = "answer"
        BY <1>1, <2>7, <4>1, <3>1 DEF Answer, Goto
      <4>5. QED
        BY <1>1, <4>1, <4>2, <4>3, <4>4, <3>1, StaysEnding
    <3>7. Limited'
      BY <1>1, <2>7, <3>1, StaysLimited DEF Answer
    <3>8. Distinct'
      BY <1>1, <2>7, <3>1, StaysDistinct DEF Answer
    <3>9. CanceledIsNoEvent'
      BY <1>1, <2>7, <3>1, FinishedTask DEF Answer, CanceledIsNoEvent
    <3>10. QED
      BY <3>2, <3>3, <3>4, <3>5, <3>6, <3>7, <3>8, <3>9 DEF IInv
  <2>8. ASSUME NEW w \in Enders, NEW j \in Kids, Commit(w, j) PROVE IInv'
    <3>1. TaskKept /\ ActiveTasks' = ActiveTasks
      BY <2>8, SameTask DEF Commit
    <3>2. /\ ender' \in [Enders \X Kids -> {"off", "commit", "refused", "sync", "end"}]
          /\ \A v \in Enders, k \in Kids : v # w \/ k # j => ender'[<<v, k>>] = ender[<<v, k>>]
          /\ ender[<<w, j>>] = "commit" /\ ender'[<<w, j>>] \in {"sync", "refused"}
          /\ ender'[<<w, j>>] = "sync" => child[j] = "active"
      <4>1. PICK l \in {"sync", "refused"} : ender' = [ender EXCEPT ![<<w, j>>] = l]
        BY <2>8 DEF Commit, At
      <4>2. l = "sync" => child[j] = "active"
        BY <1>1, <2>8, <4>1 DEF Commit, At, Types
      <4>3. /\ ender' \in [Enders \X Kids -> {"off", "commit", "refused", "sync", "end"}]
            /\ \A v \in Enders, k \in Kids : ender'[<<v, k>>] = IF v = w /\ k = j THEN l ELSE ender[<<v, k>>]
        BY <1>1, <4>1, AtSets
      <4>4. QED
        BY <2>8, <4>2, <4>3 DEF Commit
    <3>3. \/ child' = child /\ ender'[<<w, j>>] = "refused" /\ child[j] # "active"
          \/ /\ child[j] = "active"
             /\ \E s \in Terminal : child' = [child EXCEPT ![j] = s] /\ (s = "canceled" => w # "exec")
      <4>1. CASE child[j] = "active"
        BY <2>8, <4>1 DEF Commit, Terminal
      <4>2. CASE child[j] # "active"
        BY <2>8, <3>2, <4>2 DEF Commit
      <4>3. QED
        BY <4>1, <4>2
    <3>4. /\ child' \in [Kids -> {"none", "active", "deleted"} \union Terminal]
          /\ \A k \in Kids : k # j => child'[k] = child[k]
          /\ (child'[j] = child[j] /\ ender'[<<w, j>>] = "refused") \/ (child[j] = "active" /\ child'[j] \in Terminal)
          /\ child'[j] = child[j] \/ (child'[j] = "canceled" => w # "exec")
      <4>1. child \in [Kids -> {"none", "active", "deleted"} \union Terminal]
        BY <1>1 DEF Types, TypeOK
      <4>2. CASE child' = child /\ ender'[<<w, j>>] = "refused"
        BY <4>1, <4>2
      <4>3. ASSUME child[j] = "active", NEW s \in Terminal, child' = [child EXCEPT ![j] = s], s = "canceled" => w # "exec"
            PROVE  /\ child' \in [Kids -> {"none", "active", "deleted"} \union Terminal]
                   /\ \A k \in Kids : k # j => child'[k] = child[k]
                   /\ child'[j] = s
        BY <4>1, <4>3
      <4>4. QED
        BY <3>3, <4>2, <4>3
    <3>5. ~Unknown(j)
      BY <3>2 DEF Unknown
    <3>6. \A k \in Kids : k # j => (Unknown(k)' <=> Unknown(k)) /\ child'[k] = child[k]
      BY <2>8, <3>2, <3>4 DEF Commit, Unknown
    <3>7. \A k \in Kids : (child'[k] = "none") <=> (child[k] = "none")
      BY <3>4 DEF Terminal
    <3>8. \A k \in Kids : child[k] \in Terminal => child'[k] = child[k]
      BY <3>4 DEF Terminal
    <3>9. Types'
      <4>1. child' \in [Kids -> {"none", "active", "deleted"} \union Terminal]
        BY <1>1, <1>6, <2>8, <3>1, <3>2, <3>3, <3>4, <3>5, <3>6, <3>7, <3>8 DEF Commit
      <4>2. ender' \in [Enders \X Kids -> {"off", "commit", "refused", "sync", "end"}]
        BY <1>1, <1>6, <2>8, <3>1, <3>2, <3>3, <3>4, <3>5, <3>6, <3>7, <3>8 DEF Commit
      <4>3. QED
        BY <1>1, <2>8, <3>1, <3>2, <3>3, <3>4, <3>5, <3>6, <3>7, <3>8, <4>1, <4>2 DEF Commit, Types, TypeOK
    <3>10. ASSUME NEW c \in Calls PROVE Tries(c)'
      BY <1>1, <1>2, <1>8, <2>8, <3>1, <3>5, <3>6, <3>7, StaysTried DEF Commit, Types
    <3>11. ASSUME NEW c \in Calls PROVE Reserved(c)'
      BY <1>1, <1>3, <1>6, <2>8, <3>1, <3>2, <3>3, <3>4, <3>5, <3>6, <3>7, <3>8 DEF Commit, Reserved, TaskKept
    <3>12. ASSUME NEW k \in Kids PROVE Untouched(k)'
      BY <1>4, <3>5, <3>6, <3>7 DEF Untouched
    <3>13. ASSUME NEW k \in Kids PROVE Ends(k)'
      <4>1. Ends(k) /\ Ends(j) /\ k[1] \in Calls
        BY <1>5, <1>7
      <4>2. CASE k # j
        BY <1>1, <2>8, <3>1, <3>2, <3>4, <4>1, <4>2, StaysEnding DEF Commit
      <4>3. CASE k = j
        <5>1. UNCHANGED <<ending, call, killed, task>> /\ Kid(j[1])' = Kid(j[1]) /\ (Over(j[1])' <=> Over(j[1]))
          BY <2>8, <3>1, <4>1, <4>3 DEF Commit, Over, TaskKept
        <5>2. \A v \in Enders : /\ ender'[<<v, j>>] # "off" => ender[<<v, j>>] # "off"
                                /\ ender'[<<v, j>>] \in {"sync", "end"} => (ender'[<<v, j>>] = ender[<<v, j>>] \/ child[j] = "active")
          BY <3>2
        <5>3. \A v \in Enders : ender'[<<v, j>>] \in {"sync", "end"} => child'[j] \in Terminal
          BY <3>2, <3>4, <3>8, <4>1, <4>3 DEF Ends
        <5>4. child'[j] = "canceled" => child[j] = "canceled" \/ (w # "exec" /\ ender[<<w, j>>] # "off")
          BY <3>2, <3>4
        <5>5. child'[j] = "canceled" => j[1] \in killed \/ Over(j[1])
          BY <4>1, <4>3, <5>4 DEF Ends, Enders
        <5>6. call[j[1]] = "answer" /\ j = Kid(j[1]) => \A v \in Enders : ender'[<<v, j>>] \notin {"sync", "end"}
          <6>1. call[j[1]] = "answer" /\ j = Kid(j[1]) => child[j] # "active"
            BY <1>3, <4>1, <4>3 DEF Reserved, Terminal
          <6>2. QED
            BY <4>1, <4>3, <5>2, <6>1 DEF Ends
        <5>7. QED
          BY <4>1, <4>3, <5>1, <5>2, <5>3, <5>5, <5>6 DEF Ends, Enders
      <4>4. QED
        BY <4>2, <4>3
    <3>14. Limited'
      BY <1>1, <2>8, <3>1, <3>2, <3>3, <3>4, <3>5, <3>6, <3>7, <3>8, StaysLimited DEF Commit
    <3>15. Distinct'
      BY <1>1, <2>8, <3>1, <3>2, <3>3, <3>4, <3>5, <3>6, <3>7, <3>8, StaysDistinct DEF Commit
    <3>16. CanceledIsNoEvent'
      BY <1>1, <2>8, <3>1, <3>2, <3>3, <3>4, <3>5, <3>6, <3>7, <3>8 DEF Commit, CanceledIsNoEvent
    <3>17. QED
      BY <3>9, <3>10, <3>11, <3>12, <3>13, <3>14, <3>15, <3>16 DEF IInv
  <2>9. ASSUME NEW w \in Enders, NEW j \in Kids, Sync(w, j) PROVE IInv'
    <3>1. /\ ender' \in [Enders \X Kids -> {"off", "commit", "refused", "sync", "end"}]
          /\ \A v \in Enders, k \in Kids : ender'[<<v, k>>] = IF v = w /\ k = j THEN "end" ELSE ender[<<v, k>>]
      BY <1>1, <2>9, AtSets DEF Sync, At
    <3>2. ender[<<w, j>>] = "sync" /\ child[j] \in Terminal /\ j[1] \in Calls
      BY <1>5, <1>7, <2>9 DEF Sync, Ends
    <3>3. /\ task' \in [Calls -> [status : {"none", "running"} \union Terminal, kid : Attempts, delivered : BOOLEAN]]
          /\ TaskKept /\ ActiveTasks' \subseteq ActiveTasks
      <4>1. (j[1] \in Blocking) \in BOOLEAN
        OBVIOUS
      <4>2. QED
        BY <1>1, <2>9, <3>2, <4>1, FinishedTask, SameTask DEF Sync, Types, TypeOK
    <3>4. ~Unknown(j)
      BY <3>2 DEF Unknown
    <3>5. \A k \in Kids : k # j => (Unknown(k)' <=> Unknown(k))
      BY <2>9, <3>1 DEF Sync, Unknown
    <3>6. Types'
      <4>1. task' \in [Calls -> [status : {"none", "running"} \union Terminal, kid : Attempts, delivered : BOOLEAN]]
        BY <1>1, <1>6, <2>9, <3>1, <3>2, <3>3, <3>4, <3>5 DEF Sync
      <4>2. ender' \in [Enders \X Kids -> {"off", "commit", "refused", "sync", "end"}]
        BY <1>1, <1>6, <2>9, <3>1, <3>2, <3>3, <3>4, <3>5 DEF Sync
      <4>3. QED
        BY <1>1, <2>9, <3>1, <3>2, <3>3, <3>4, <3>5, <4>1, <4>2 DEF Sync, Types, TypeOK
    <3>7. ASSUME NEW c \in Calls PROVE Tries(c)'
      BY <1>1, <1>2, <1>8, <2>9, <3>3, <3>4, <3>5, StaysTried DEF Sync, Types
    <3>8. ASSUME NEW c \in Calls PROVE Reserved(c)'
      BY <1>1, <1>3, <1>6, <2>9, <3>1, <3>2, <3>3, <3>4, <3>5 DEF Sync, Reserved, TaskKept
    <3>9. ASSUME NEW k \in Kids PROVE Untouched(k)'
      BY <1>4, <2>9, <3>4, <3>5 DEF Sync, Untouched
    <3>10. ASSUME NEW k \in Kids PROVE Ends(k)'
      BY <1>5, <1>7, <2>9, <3>1, <3>2, <3>3 DEF Sync, Ends, TaskKept, Enders
    <3>11. Limited'
      BY <1>1, <2>9, <3>1, <3>2, <3>3, <3>4, <3>5, StaysLimited DEF Sync
    <3>12. Distinct'
      BY <1>1, <2>9, <3>1, <3>2, <3>3, <3>4, <3>5, StaysDistinct DEF Sync
    <3>13. CanceledIsNoEvent'
      <4>1. CASE Kid(j[1]) = j
        <5>1. (j[1] \in Blocking) \in BOOLEAN /\ task' = Finished(j[1], child[j], j[1] \in Blocking)
          BY <2>9, <4>1 DEF Sync
        <5>2. child[j] = "canceled" => j[1] \in killed \/ Over(j[1])
          BY <1>5 DEF Ends
        <5>3. UNCHANGED killed
          BY <2>9 DEF Sync
        <5>4. \A d \in Calls : d # j[1] \/ task[d].status # "running" => task'[d] = task[d]
          BY <1>1, <3>2, <5>1, FinishedTask
        <5>5. task[j[1]].status = "running" => task'[j[1]].status = child[j]
          BY <1>1, <3>2, <5>1, FinishedTask
        <5>6. QED
          BY <1>1, <3>2, <5>2, <5>3, <5>4, <5>5 DEF CanceledIsNoEvent, Over
      <4>2. CASE Kid(j[1]) # j
        BY <1>1, <2>9, <4>2 DEF Sync, CanceledIsNoEvent
      <4>3. QED
        BY <4>1, <4>2
    <3>14. QED
      BY <3>6, <3>7, <3>8, <3>9, <3>10, <3>11, <3>12, <3>13 DEF IInv
  <2>10. ASSUME NEW w \in Enders, NEW j \in Kids, End(w, j) PROVE IInv'
    <3>1. TaskKept /\ ActiveTasks' = ActiveTasks
      BY <2>10, SameTask DEF End
    <3>2. /\ ender' \in [Enders \X Kids -> {"off", "commit", "refused", "sync", "end"}]
          /\ \A v \in Enders, k \in Kids : ender'[<<v, k>>] = IF v = w /\ k = j THEN "off" ELSE ender[<<v, k>>]
      BY <1>1, <2>10, AtSets DEF End, At
    <3>3. Told(j) \in [Calls -> {"none", "waiting", "woken"}] /\ Halted({j}) \in [Kids -> {"off", "claim", "on", "stopped"}]
      BY <1>1 DEF Told, Halted, Types
    <3>4. run' \in [Kids -> {"off", "claim", "on", "stopped"}] /\ \A k \in Kids : run[k] = "off" => run'[k] = "off"
      BY <1>1, <2>10, <3>3 DEF End, Halted, Types
    <3>5. waiter' \in [Calls -> {"none", "waiting", "woken"}]
      BY <1>1, <2>10, <3>3 DEF End, Types
    <3>6. \A k \in Kids : Unknown(k) => Unknown(k)'
      BY <3>2, <3>4 DEF Unknown
    <3>7. /\ ending' \in [Kids -> SUBSET Enders]
          /\ \A k \in Kids, v \in Enders : v \in ending[k] => (v \in ending'[k] \/ (v = w /\ k = j))
      <4>1. ending' = [ending EXCEPT ![j] = @ \ {w}] /\ ending \in [Kids -> SUBSET Enders]
        BY <1>1, <2>10 DEF End, Types, TypeOK
      <4>2. QED
        BY <4>1
    <3>8. Types'
      BY <1>1, <2>10, <3>2, <3>4, <3>5, <3>7 DEF End, Types, TypeOK
    <3>9. ASSUME NEW c \in Calls PROVE Tries(c)'
      BY <1>1, <1>2, <1>8, <2>10, <3>1, <3>6, StaysTried DEF End, Types
    <3>10. ASSUME NEW c \in Calls PROVE Reserved(c)'
      BY <1>3, <2>10, <3>1 DEF End, Reserved, TaskKept
    <3>11. ASSUME NEW k \in Kids PROVE Untouched(k)'
      BY <1>4, <2>10, <3>6 DEF End, Untouched
    <3>12. ASSUME NEW k \in Kids PROVE Ends(k)'
      BY <1>5, <1>7, <2>10, <3>1, <3>2, <3>7 DEF End, Ends, TaskKept, Enders
    <3>13. Limited'
      BY <1>1, <2>10, <3>1, <3>2, <3>3, <3>4, <3>5, <3>6, <3>7, StaysLimited DEF End
    <3>14. Distinct'
      BY <1>1, <2>10, <3>1, <3>2, <3>3, <3>4, <3>5, <3>6, <3>7, StaysDistinct DEF End
    <3>15. CanceledIsNoEvent'
      BY <1>1, <2>10, <3>1, <3>2, <3>3, <3>4, <3>5, <3>6, <3>7 DEF End, CanceledIsNoEvent
    <3>16. QED
      BY <3>8, <3>9, <3>10, <3>11, <3>12, <3>13, <3>14, <3>15 DEF IInv
  <2>11. ASSUME NEW j \in Kids, Claim(j) PROVE IInv'
    <3>1. TaskKept /\ ActiveTasks' = ActiveTasks
      BY <2>11, SameTask DEF Claim
    <3>2. ~Unknown(j) /\ \A k \in Kids : k # j => run'[k] = run[k]
      BY <1>1, <2>11 DEF Claim, Unknown
    <3>3. \A k \in Kids : Unknown(k) => Unknown(k)'
      BY <2>11, <3>2 DEF Claim, Unknown
    <3>4. Types'
      <4>1. run' \in [Kids -> {"off", "claim", "on", "stopped"}]
        BY <1>1, <1>6, <2>11, <3>1, <3>2, <3>3 DEF Claim, Types
      <4>2. QED
        BY <1>1, <2>11, <3>1, <3>2, <3>3, <4>1 DEF Claim, Types, TypeOK
    <3>5. ASSUME NEW c \in Calls PROVE Tries(c)'
      BY <1>1, <1>2, <1>8, <2>11, <3>1, <3>3, StaysTried DEF Claim, Types
    <3>6. ASSUME NEW c \in Calls PROVE Reserved(c)'
      BY <1>1, <1>3, <1>6, <2>11, <3>1, <3>2, <3>3 DEF Claim, Reserved, TaskKept
    <3>7. ASSUME NEW k \in Kids PROVE Untouched(k)'
      BY <1>4, <2>11, <3>3 DEF Claim, Untouched
    <3>8. ASSUME NEW k \in Kids PROVE Ends(k)'
      <4>1. Ends(k) /\ k[1] \in Calls
        BY <1>5, <1>7
      <4>2. ending'[k] = ending[k] /\ \A v \in Enders : ender'[<<v, k>>] = ender[<<v, k>>]
        BY <1>1, <2>11, <4>1, <3>1, <3>2, <3>3 DEF Claim
      <4>3. child'[k] = child[k] /\ killed \subseteq killed'
        BY <1>1, <2>11, <4>1, <3>1, <3>2, <3>3 DEF Claim
      <4>4. call'[k[1]] = "answer" => call[k[1]] = "answer"
        BY <1>1, <2>11, <4>1, <3>1, <3>2, <3>3 DEF Claim
      <4>5. QED
        BY <1>1, <4>1, <4>2, <4>3, <4>4, <3>1, <3>2, <3>3, StaysEnding
    <3>9. Limited'
      BY <1>1, <2>11, <3>1, <3>2, <3>3, StaysLimited DEF Claim
    <3>10. Distinct'
      BY <1>1, <2>11, <3>1, <3>2, <3>3, StaysDistinct DEF Claim
    <3>11. CanceledIsNoEvent'
      BY <1>1, <2>11, <3>1, <3>2, <3>3 DEF Claim, CanceledIsNoEvent
    <3>12. QED
      BY <3>4, <3>5, <3>6, <3>7, <3>8, <3>9, <3>10, <3>11 DEF IInv
  <2>12. ASSUME NEW j \in Kids, ChildEnds(j) PROVE IInv'
    <3>1. TaskKept /\ ActiveTasks' = ActiveTasks
      BY <2>12, SameTask DEF ChildEnds
    <3>2. /\ ender' \in [Enders \X Kids -> {"off", "commit", "refused", "sync", "end"}]
          /\ \A v \in Enders, k \in Kids : ender'[<<v, k>>] = IF v = "exec" /\ k = j THEN "commit" ELSE ender[<<v, k>>]
          /\ ending' = [ending EXCEPT ![j] = @ \union {"exec"}] /\ "exec" \in Enders /\ ~Unknown(j)
      BY <1>1, <2>12, AtSets DEF ChildEnds, Begin, At, Enders, Unknown
    <3>3. \A k \in Kids : k # j => (Unknown(k)' <=> Unknown(k))
      BY <2>12, <3>2 DEF ChildEnds, Unknown
    <3>4. Types'
      BY <1>1, <2>12, <3>2 DEF ChildEnds, Types, TypeOK
    <3>5. ASSUME NEW c \in Calls PROVE Tries(c)'
      BY <1>1, <1>2, <1>8, <2>12, <3>1, <3>2, <3>3, StaysTried DEF ChildEnds, Types
    <3>6. ASSUME NEW c \in Calls PROVE Reserved(c)'
      BY <1>1, <1>3, <1>6, <2>12, <3>1, <3>2, <3>3 DEF ChildEnds, Begin, Reserved, TaskKept
    <3>7. ASSUME NEW k \in Kids PROVE Untouched(k)'
      BY <1>4, <2>12, <3>2, <3>3 DEF ChildEnds, Untouched
    <3>8. ASSUME NEW k \in Kids PROVE Ends(k)'
      BY <1>1, <1>5, <1>7, <2>12, <3>1, <3>2 DEF ChildEnds, Ends, TaskKept, Enders, Types, TypeOK
    <3>9. Limited'
      BY <1>1, <2>12, <3>1, <3>2, <3>3, StaysLimited DEF ChildEnds, Begin
    <3>10. Distinct'
      BY <1>1, <2>12, <3>1, <3>2, <3>3, StaysDistinct DEF ChildEnds, Begin
    <3>11. CanceledIsNoEvent'
      BY <1>1, <2>12, <3>1, <3>2, <3>3 DEF ChildEnds, Begin, CanceledIsNoEvent
    <3>12. QED
      BY <3>4, <3>5, <3>6, <3>7, <3>8, <3>9, <3>10, <3>11 DEF IInv
  <2>13. ASSUME NEW j \in Kids, ChildStops(j) PROVE IInv'
    <3>1. TaskKept /\ ActiveTasks' = ActiveTasks
      BY <2>13, SameTask DEF ChildStops
    <3>2. \A k \in Kids : Unknown(k) => Unknown(k)'
      BY <1>1, <2>13 DEF ChildStops, Unknown
    <3>3. Types'
      <4>1. run' \in [Kids -> {"off", "claim", "on", "stopped"}]
        BY <1>1, <1>6, <2>13, <3>1, <3>2 DEF ChildStops, Types
      <4>2. QED
        BY <1>1, <2>13, <3>1, <3>2, <4>1 DEF ChildStops, Types, TypeOK
    <3>4. ASSUME NEW c \in Calls PROVE Tries(c)'
      BY <1>1, <1>2, <1>8, <2>13, <3>1, <3>2, StaysTried DEF ChildStops, Types
    <3>5. ASSUME NEW c \in Calls PROVE Reserved(c)'
      BY <1>1, <1>3, <1>6, <2>13, <3>1, <3>2 DEF ChildStops, Reserved, TaskKept
    <3>6. ASSUME NEW k \in Kids PROVE Untouched(k)'
      BY <1>4, <2>13, <3>2 DEF ChildStops, Untouched
    <3>7. ASSUME NEW k \in Kids PROVE Ends(k)'
      <4>1. Ends(k) /\ k[1] \in Calls
        BY <1>5, <1>7
      <4>2. ending'[k] = ending[k] /\ \A v \in Enders : ender'[<<v, k>>] = ender[<<v, k>>]
        BY <1>1, <2>13, <4>1, <3>1, <3>2 DEF ChildStops
      <4>3. child'[k] = child[k] /\ killed \subseteq killed'
        BY <1>1, <2>13, <4>1, <3>1, <3>2 DEF ChildStops
      <4>4. call'[k[1]] = "answer" => call[k[1]] = "answer"
        BY <1>1, <2>13, <4>1, <3>1, <3>2 DEF ChildStops
      <4>5. QED
        BY <1>1, <4>1, <4>2, <4>3, <4>4, <3>1, <3>2, StaysEnding
    <3>8. Limited'
      BY <1>1, <2>13, <3>1, <3>2, StaysLimited DEF ChildStops
    <3>9. Distinct'
      BY <1>1, <2>13, <3>1, <3>2, StaysDistinct DEF ChildStops
    <3>10. CanceledIsNoEvent'
      BY <1>1, <2>13, <3>1, <3>2 DEF ChildStops, CanceledIsNoEvent
    <3>11. QED
      BY <3>3, <3>4, <3>5, <3>6, <3>7, <3>8, <3>9, <3>10 DEF IInv
  <2>14. ASSUME NEW j \in Kids, Kill(j) PROVE IInv'
    <3>1. TaskKept /\ ActiveTasks' = ActiveTasks
      BY <2>14, SameTask DEF Kill
    <3>2. /\ ender' \in [Enders \X Kids -> {"off", "commit", "refused", "sync", "end"}]
          /\ \A v \in Enders, k \in Kids : ender'[<<v, k>>] = IF v = "kill" /\ k = j THEN "commit" ELSE ender[<<v, k>>]
          /\ ending' = [ending EXCEPT ![j] = @ \union {"kill"}] /\ "kill" \in Enders
      BY <1>1, <2>14, AtSets DEF Kill, Begin, At, Enders
    <3>3. j[1] \in Calls /\ Had(j[1]) /\ call[j[1]] # "record" /\ child[j] = "active"
      BY <1>3, <1>7, <2>14 DEF Kill, Reserved, Had
    <3>4. \A k \in Kids : k # j => (Unknown(k)' <=> Unknown(k))
      BY <2>14, <3>2 DEF Kill, Unknown
    <3>5. \A c \in Calls, m \in Attempts : <<c, m>> = j => c = j[1]
      OBVIOUS
    <3>6. Types'
      BY <1>1, <2>14, <3>2, <3>3, BoundAssumption DEF Kill, Types, TypeOK
    <3>7. ASSUME NEW c \in Calls PROVE Tries(c)'
      BY <1>1, <1>2, <1>8, <2>14, <3>1, <3>3, <3>4, <3>5, StaysTried DEF Kill, Types
    <3>8. ASSUME NEW c \in Calls PROVE Reserved(c)'
      BY <1>1, <1>3, <1>6, <2>14, <3>1, <3>2, <3>3, <3>4, <3>5 DEF Kill, Begin, Reserved, TaskKept
    <3>9. ASSUME NEW k \in Kids PROVE Untouched(k)'
      BY <1>4, <2>14, <3>3, <3>4 DEF Kill, Untouched
    <3>10. ASSUME NEW k \in Kids PROVE Ends(k)'
      BY <1>1, <1>5, <1>7, <2>14, <3>1, <3>2, <3>3 DEF Kill, Ends, TaskKept, Enders, Types, TypeOK
    <3>11. Limited'
      BY <1>1, <2>14, <3>1, <3>2, <3>3, <3>4, <3>5, StaysLimited DEF Kill, Begin
    <3>12. Distinct'
      BY <1>1, <2>14, <3>1, <3>2, <3>3, <3>4, <3>5, StaysDistinct DEF Kill, Begin
    <3>13. CanceledIsNoEvent'
      BY <1>1, <2>14, <3>1, <3>2, <3>3, <3>4, <3>5 DEF Kill, Begin, CanceledIsNoEvent
    <3>14. QED
      BY <3>6, <3>7, <3>8, <3>9, <3>10, <3>11, <3>12, <3>13 DEF IInv
  <2>15. ASSUME ParentEnds PROVE IInv'
    <3>1. TaskKept /\ ActiveTasks' = ActiveTasks
      BY <2>15, SameTask DEF ParentEnds
    <3>2. Types'
      <4>1. parent' \in {"active"} \union Terminal
        BY <1>1, <1>6, <2>15, <3>1 DEF ParentEnds, Types, TypeOK, Terminal
      <4>2. exec' \in {"on", "stopped", "off"}
        BY <1>1, <1>6, <2>15, <3>1 DEF ParentEnds
      <4>3. QED
        BY <1>1, <2>15, <3>1, <4>1, <4>2 DEF ParentEnds, Types, TypeOK
    <3>3. ASSUME NEW c \in Calls PROVE Tries(c)'
      BY <1>1, <1>2, <1>8, <2>15, <3>1, StaysTried DEF ParentEnds, Types
    <3>4. ASSUME NEW c \in Calls PROVE Reserved(c)'
      BY <1>1, <1>3, <1>6, <2>15, <3>1 DEF ParentEnds, Reserved, TaskKept
    <3>5. ASSUME NEW k \in Kids PROVE Untouched(k)'
      BY <1>1, <1>4, <2>15, <3>1 DEF ParentEnds, Untouched, Unknown
    <3>6. ASSUME NEW k \in Kids PROVE Ends(k)'
      <4>1. Ends(k) /\ k[1] \in Calls
        BY <1>5, <1>7
      <4>2. ending'[k] = ending[k] /\ \A v \in Enders : ender'[<<v, k>>] = ender[<<v, k>>]
        BY <1>1, <2>15, <4>1, <3>1 DEF ParentEnds
      <4>3. child'[k] = child[k] /\ killed \subseteq killed'
        BY <1>1, <2>15, <4>1, <3>1 DEF ParentEnds
      <4>4. call'[k[1]] = "answer" => call[k[1]] = "answer"
        BY <1>1, <2>15, <4>1, <3>1 DEF ParentEnds
      <4>5. QED
        BY <1>1, <4>1, <4>2, <4>3, <4>4, <3>1, StaysEnding
    <3>7. Limited'
      BY <1>1, <2>15, <3>1, StaysLimited DEF ParentEnds
    <3>8. Distinct'
      BY <1>1, <2>15, <3>1, StaysDistinct DEF ParentEnds
    <3>9. CanceledIsNoEvent'
      BY <1>1, <2>15, <3>1 DEF ParentEnds, CanceledIsNoEvent
    <3>10. QED
      BY <3>2, <3>3, <3>4, <3>5, <3>6, <3>7, <3>8, <3>9 DEF IInv
  <2>16. ASSUME ParentStops PROVE IInv'
    <3>1. TaskKept /\ ActiveTasks' = ActiveTasks
      BY <2>16, SameTask DEF ParentStops
    <3>2. Types'
      <4>1. exec' \in {"on", "stopped", "off"}
        BY <1>1, <1>6, <2>16, <3>1 DEF ParentStops
      <4>2. QED
        BY <1>1, <2>16, <3>1, <4>1 DEF ParentStops, Types, TypeOK
    <3>3. ASSUME NEW c \in Calls PROVE Tries(c)'
      BY <1>1, <1>2, <1>8, <2>16, <3>1, StaysTried DEF ParentStops, Types
    <3>4. ASSUME NEW c \in Calls PROVE Reserved(c)'
      BY <1>1, <1>3, <1>6, <2>16, <3>1 DEF ParentStops, Reserved, TaskKept
    <3>5. ASSUME NEW k \in Kids PROVE Untouched(k)'
      BY <1>1, <1>4, <2>16, <3>1 DEF ParentStops, Untouched, Unknown
    <3>6. ASSUME NEW k \in Kids PROVE Ends(k)'
      <4>1. Ends(k) /\ k[1] \in Calls
        BY <1>5, <1>7
      <4>2. ending'[k] = ending[k] /\ \A v \in Enders : ender'[<<v, k>>] = ender[<<v, k>>]
        BY <1>1, <2>16, <4>1, <3>1 DEF ParentStops
      <4>3. child'[k] = child[k] /\ killed \subseteq killed'
        BY <1>1, <2>16, <4>1, <3>1 DEF ParentStops
      <4>4. call'[k[1]] = "answer" => call[k[1]] = "answer"
        BY <1>1, <2>16, <4>1, <3>1 DEF ParentStops
      <4>5. QED
        BY <1>1, <4>1, <4>2, <4>3, <4>4, <3>1, StaysEnding
    <3>7. Limited'
      BY <1>1, <2>16, <3>1, StaysLimited DEF ParentStops
    <3>8. Distinct'
      BY <1>1, <2>16, <3>1, StaysDistinct DEF ParentStops
    <3>9. CanceledIsNoEvent'
      BY <1>1, <2>16, <3>1 DEF ParentStops, CanceledIsNoEvent
    <3>10. QED
      BY <3>2, <3>3, <3>4, <3>5, <3>6, <3>7, <3>8, <3>9 DEF IInv
  <2>17. ASSUME Cancel PROVE IInv'
    <3>1. TaskKept /\ ActiveTasks' = ActiveTasks
      BY <2>17, SameTask DEF Cancel
    <3>2. \A c \in ActiveTasks : c \in Calls /\ Had(c)
      BY DEF ActiveTasks, Had
    <3>3. Types'
      <4>1. todo' \subseteq Calls
        BY <1>1, <1>6, <2>17, <3>1, <3>2 DEF Cancel
      <4>2. faults' \in 0 .. MaxFaults
        BY <1>1, <1>6, <2>17, <3>1, <3>2, BoundAssumption DEF Cancel, Types
      <4>3. QED
        BY <1>1, <2>17, <3>1, <3>2, <4>1, <4>2 DEF Cancel, Types, TypeOK
    <3>4. ASSUME NEW c \in Calls PROVE Tries(c)'
      BY <1>1, <1>2, <1>8, <2>17, <3>1, <3>2, StaysTried DEF Cancel, Types, Unknown
    <3>5. ASSUME NEW c \in Calls PROVE Reserved(c)'
      BY <1>3, <2>17, <3>1, <3>2 DEF Cancel, Reserved, TaskKept
    <3>6. ASSUME NEW k \in Kids PROVE Untouched(k)'
      BY <1>1, <1>4, <2>17, <3>1, <3>2 DEF Cancel, Untouched, Unknown
    <3>7. ASSUME NEW k \in Kids PROVE Ends(k)'
      <4>1. Ends(k) /\ k[1] \in Calls
        BY <1>5, <1>7
      <4>2. ending'[k] = ending[k] /\ \A v \in Enders : ender'[<<v, k>>] = ender[<<v, k>>]
        BY <1>1, <2>17, <4>1, <3>1, <3>2 DEF Cancel
      <4>3. child'[k] = child[k] /\ killed \subseteq killed'
        BY <1>1, <2>17, <4>1, <3>1, <3>2 DEF Cancel
      <4>4. call'[k[1]] = "answer" => call[k[1]] = "answer"
        BY <1>1, <2>17, <4>1, <3>1, <3>2 DEF Cancel
      <4>5. QED
        BY <1>1, <4>1, <4>2, <4>3, <4>4, <3>1, <3>2, StaysEnding
    <3>8. Limited'
      BY <1>1, <2>17, <3>1, <3>2, StaysLimited DEF Cancel
    <3>9. Distinct'
      BY <1>1, <2>17, <3>1, <3>2, StaysDistinct DEF Cancel
    <3>10. CanceledIsNoEvent'
      BY <1>1, <2>17, <3>1, <3>2 DEF Cancel, CanceledIsNoEvent
    <3>11. QED
      BY <3>3, <3>4, <3>5, <3>6, <3>7, <3>8, <3>9, <3>10 DEF IInv
  <2>18. ASSUME NEW d \in Calls, CancelTask(d) PROVE IInv'
    <3>1. /\ task' = Finished(d, "canceled", TRUE) /\ Had(d) /\ "canceled" \in Terminal /\ "stop" \in Enders
      BY <1>3, <2>18 DEF CancelTask, Reserved, Terminal, Enders
    <3>2. /\ task' \in [Calls -> [status : {"none", "running"} \union Terminal, kid : Attempts, delivered : BOOLEAN]]
          /\ TaskKept /\ ActiveTasks' \subseteq ActiveTasks /\ Over(d)'
      BY <1>1, <3>1, FinishedTask
    <3>3. CanceledIsNoEvent'
      BY <1>1, <2>18, <3>1, FinishedTask DEF CancelTask, CanceledIsNoEvent
    <3>4. Kid(d) \in Kids /\ Kid(d)[1] = d /\ child[Kid(d)] # "none" /\ call[d] # "record"
      BY <1>3, <1>6, <3>1 DEF Reserved, Terminal
    <3>5. /\ ender' \in [Enders \X Kids -> {"off", "commit", "refused", "sync", "end"}]
          /\ ending' \in [Kids -> SUBSET Enders]
          /\ \A k \in Kids : k # Kid(d) => ending'[k] = ending[k] /\ \A v \in Enders : ender'[<<v, k>>] = ender[<<v, k>>]
          /\ \A v \in Enders : v # "stop" => ender'[<<v, Kid(d)>>] = ender[<<v, Kid(d)>>]
          /\ ender'[<<"stop", Kid(d)>>] \in {"commit", ender[<<"stop", Kid(d)>>]}
          /\ \A v \in ending[Kid(d)] : v \in ending'[Kid(d)]
          /\ ender'[<<"stop", Kid(d)>>] = "commit" => "stop" \in ending'[Kid(d)]
      <4>1. CASE child[Kid(d)] = "active"
        <5>1. ending' = [ending EXCEPT ![Kid(d)] = @ \union {"stop"}] /\ ender' = [ender EXCEPT ![<<"stop", Kid(d)>>] = "commit"]
          BY <2>18, <4>1 DEF CancelTask, Begin, At
        <5>2. ending \in [Kids -> SUBSET Enders]
          BY <1>1 DEF Types, TypeOK
        <5>3. /\ ender' \in [Enders \X Kids -> {"off", "commit", "refused", "sync", "end"}]
              /\ \A v \in Enders, k \in Kids : ender'[<<v, k>>] = IF v = "stop" /\ k = Kid(d) THEN "commit" ELSE ender[<<v, k>>]
          BY <1>1, <3>1, <3>4, <5>1, AtSets
        <5>4. /\ ending' \in [Kids -> SUBSET Enders] /\ ending'[Kid(d)] = ending[Kid(d)] \union {"stop"}
              /\ \A k \in Kids : k # Kid(d) => ending'[k] = ending[k]
          BY <3>1, <3>4, <5>1, <5>2
        <5>5. QED
          BY <3>1, <3>4, <5>3, <5>4
      <4>2. CASE child[Kid(d)] # "active"
        <5>1. UNCHANGED <<ending, ender>>
          BY <2>18, <4>2 DEF CancelTask
        <5>2. ender[<<"stop", Kid(d)>>] = "commit" => "stop" \in ending[Kid(d)]
          BY <1>5, <3>1, <3>4 DEF Ends
        <5>3. QED
          BY <1>1, <5>1, <5>2 DEF Types, TypeOK
      <4>3. QED
        BY <4>1, <4>2
    <3>6. \A k \in Kids : k # Kid(d) => (Unknown(k)' <=> Unknown(k))
      BY <2>18, <3>5 DEF CancelTask, Unknown
    <3>7. \A c \in Calls, m \in Attempts : <<c, m>> = Kid(d) => c = d
      BY <3>4
    <3>8. Types'
      BY <1>1, <2>18, <3>2, <3>5 DEF CancelTask, Types, TypeOK
    <3>9. ASSUME NEW c \in Calls PROVE Tries(c)'
      BY <1>1, <1>2, <1>8, <2>18, <3>2, <3>4, <3>6, <3>7, StaysTried DEF CancelTask, Types
    <3>10. ASSUME NEW c \in Calls PROVE Reserved(c)'
      BY <1>3, <1>6, <2>18, <3>2 DEF CancelTask, Reserved, TaskKept
    <3>11. ASSUME NEW k \in Kids PROVE Untouched(k)'
      BY <1>4, <2>18, <3>4, <3>6 DEF CancelTask, Untouched
    <3>12. ASSUME NEW k \in Kids PROVE Ends(k)'
      <4>1. Ends(k) /\ k[1] \in Calls /\ UNCHANGED <<child, call, killed>>
        BY <1>5, <1>7, <2>18 DEF CancelTask
      <4>2. CASE k # Kid(d)
        BY <1>1, <3>2, <3>5, <4>1, <4>2, StaysEnding
      <4>3. CASE k = Kid(d)
        BY <3>1, <3>2, <3>4, <3>5, <4>1, <4>3 DEF Ends, TaskKept, Enders
      <4>4. QED
        BY <4>2, <4>3
    <3>13. Limited'
      BY <1>1, <2>18, <3>1, <3>2, <3>3, <3>4, <3>5, <3>6, <3>7, StaysLimited DEF CancelTask, Begin
    <3>14. Distinct'
      BY <1>1, <2>18, <3>1, <3>2, <3>3, <3>4, <3>5, <3>6, <3>7, StaysDistinct DEF CancelTask, Begin
    <3>15. QED
      BY <3>8, <3>9, <3>10, <3>11, <3>12, <3>13, <3>14, <3>3 DEF IInv
  <2>19. ASSUME CancelParent PROVE IInv'
    <3>1. TaskKept /\ ActiveTasks' = ActiveTasks
      BY <2>19, SameTask DEF CancelParent
    <3>2. Types'
      <4>1. parent' \in {"active"} \union Terminal
        BY <1>1, <1>6, <2>19, <3>1 DEF CancelParent, Types, TypeOK, Terminal
      <4>2. QED
        BY <1>1, <2>19, <3>1, <4>1 DEF CancelParent, Types, TypeOK
    <3>3. ASSUME NEW c \in Calls PROVE Tries(c)'
      BY <1>1, <1>2, <1>8, <2>19, <3>1, StaysTried DEF CancelParent, Types, Unknown
    <3>4. ASSUME NEW c \in Calls PROVE Reserved(c)'
      BY <1>1, <1>3, <1>6, <2>19, <3>1 DEF CancelParent, Reserved, TaskKept
    <3>5. ASSUME NEW k \in Kids PROVE Untouched(k)'
      BY <1>1, <1>4, <2>19, <3>1 DEF CancelParent, Untouched, Unknown
    <3>6. ASSUME NEW k \in Kids PROVE Ends(k)'
      <4>1. Ends(k) /\ k[1] \in Calls
        BY <1>5, <1>7
      <4>2. ending'[k] = ending[k] /\ \A v \in Enders : ender'[<<v, k>>] = ender[<<v, k>>]
        BY <1>1, <2>19, <4>1, <3>1 DEF CancelParent
      <4>3. child'[k] = child[k] /\ killed \subseteq killed'
        BY <1>1, <2>19, <4>1, <3>1 DEF CancelParent
      <4>4. call'[k[1]] = "answer" => call[k[1]] = "answer"
        BY <1>1, <2>19, <4>1, <3>1 DEF CancelParent
      <4>5. QED
        BY <1>1, <4>1, <4>2, <4>3, <4>4, <3>1, StaysEnding
    <3>7. Limited'
      BY <1>1, <2>19, <3>1, StaysLimited DEF CancelParent
    <3>8. Distinct'
      BY <1>1, <2>19, <3>1, StaysDistinct DEF CancelParent
    <3>9. CanceledIsNoEvent'
      BY <1>1, <2>19, <3>1 DEF CancelParent, CanceledIsNoEvent
    <3>10. QED
      BY <3>2, <3>3, <3>4, <3>5, <3>6, <3>7, <3>8, <3>9 DEF IInv
  <2>20. ASSUME Halt PROVE IInv'
    <3>1. TaskKept /\ ActiveTasks' = ActiveTasks
      BY <2>20, SameTask DEF Halt
    <3>2. run' \in [Kids -> {"off", "claim", "on", "stopped"}] /\ \A k \in Kids : run[k] = "off" => run'[k] = "off"
      BY <1>1, <2>20 DEF Halt, Halted, Types
    <3>3. \A k \in Kids : Unknown(k) => Unknown(k)'
      BY <2>20, <3>2 DEF Halt, Unknown
    <3>4. Types'
      <4>1. exec' \in {"on", "stopped", "off"}
        BY <1>1, <1>6, <2>20, <3>1, <3>2, <3>3 DEF Halt, Types, TypeOK
      <4>2. run' \in [Kids -> {"off", "claim", "on", "stopped"}]
        BY <1>1, <1>6, <2>20, <3>1, <3>2, <3>3 DEF Halt
      <4>3. QED
        BY <1>1, <2>20, <3>1, <3>2, <3>3, <4>1, <4>2 DEF Halt, Types, TypeOK
    <3>5. ASSUME NEW c \in Calls PROVE Tries(c)'
      BY <1>1, <1>2, <1>8, <2>20, <3>1, <3>3, StaysTried DEF Halt, Types
    <3>6. ASSUME NEW c \in Calls PROVE Reserved(c)'
      BY <1>1, <1>3, <1>6, <2>20, <3>1, <3>2, <3>3 DEF Halt, Reserved, TaskKept
    <3>7. ASSUME NEW k \in Kids PROVE Untouched(k)'
      BY <1>4, <2>20, <3>3 DEF Halt, Untouched
    <3>8. ASSUME NEW k \in Kids PROVE Ends(k)'
      <4>1. Ends(k) /\ k[1] \in Calls
        BY <1>5, <1>7
      <4>2. ending'[k] = ending[k] /\ \A v \in Enders : ender'[<<v, k>>] = ender[<<v, k>>]
        BY <1>1, <2>20, <4>1, <3>1, <3>2, <3>3 DEF Halt
      <4>3. child'[k] = child[k] /\ killed \subseteq killed'
        BY <1>1, <2>20, <4>1, <3>1, <3>2, <3>3 DEF Halt
      <4>4. call'[k[1]] = "answer" => call[k[1]] = "answer"
        BY <1>1, <2>20, <4>1, <3>1, <3>2, <3>3 DEF Halt
      <4>5. QED
        BY <1>1, <4>1, <4>2, <4>3, <4>4, <3>1, <3>2, <3>3, StaysEnding
    <3>9. Limited'
      BY <1>1, <2>20, <3>1, <3>2, <3>3, StaysLimited DEF Halt
    <3>10. Distinct'
      BY <1>1, <2>20, <3>1, <3>2, <3>3, StaysDistinct DEF Halt
    <3>11. CanceledIsNoEvent'
      BY <1>1, <2>20, <3>1, <3>2, <3>3 DEF Halt, CanceledIsNoEvent
    <3>12. QED
      BY <3>4, <3>5, <3>6, <3>7, <3>8, <3>9, <3>10, <3>11 DEF IInv
  <2>21. ASSUME Crash PROVE IInv'
    <3>1. TaskKept /\ ActiveTasks' = ActiveTasks
      BY <2>21, SameTask DEF Crash
    <3>2. \A c \in Calls : call'[c] = IF call[c] = "done" THEN "done" ELSE "idle"
      BY <2>21 DEF Crash
    <3>3. /\ \A k \in Kids : run'[k] = "off" /\ ending'[k] = {} /\ \A v \in Enders : ender'[<<v, k>>] = "off"
          /\ UNCHANGED <<child, killed, task>>
      BY <2>21 DEF Crash
    <3>4. faults \in Nat /\ faults' = faults + 1
      BY <1>1, <2>21 DEF Crash, Types
    <3>5. Types'
      <4>1. exec' \in {"on", "stopped", "off"}
        BY <1>1, <1>6, <2>21, <3>1, <3>2, <3>3, <3>4 DEF Crash
      <4>2. call' \in [Calls -> {"idle", "record", "start", "done"} \union Waiting]
        BY <1>1, <1>6, <2>21, <3>1, <3>2, <3>3, <3>4 DEF Crash
      <4>3. starting' \subseteq Calls
        BY <1>1, <1>6, <2>21, <3>1, <3>2, <3>3, <3>4 DEF Crash
      <4>4. run' \in [Kids -> {"off", "claim", "on", "stopped"}]
        BY <1>1, <1>6, <2>21, <3>1, <3>2, <3>3, <3>4 DEF Crash
      <4>5. ending' \in [Kids -> SUBSET Enders]
        BY <1>1, <1>6, <2>21, <3>1, <3>2, <3>3, <3>4 DEF Crash
      <4>6. ender' \in [Enders \X Kids -> {"off", "commit", "refused", "sync", "end"}]
        BY <1>1, <1>6, <2>21, <3>1, <3>2, <3>3, <3>4 DEF Crash
      <4>7. waiter' \in [Calls -> {"none", "waiting", "woken"}]
        BY <1>1, <1>6, <2>21, <3>1, <3>2, <3>3, <3>4 DEF Crash
      <4>8. seen' \in [Calls -> BOOLEAN]
        BY <1>1, <1>6, <2>21, <3>1, <3>2, <3>3, <3>4 DEF Crash
      <4>9. todo' \subseteq Calls
        BY <1>1, <1>6, <2>21, <3>1, <3>2, <3>3, <3>4 DEF Crash
      <4>10. boot' \subseteq Calls
        BY <1>1, <1>6, <2>21, <3>1, <3>2, <3>3, <3>4 DEF Crash
      <4>11. faults' \in 0 .. MaxFaults
        BY <1>1, <1>6, <2>21, <3>1, <3>2, <3>3, <3>4, BoundAssumption DEF Crash
      <4>12. QED
        BY <1>1, <2>21, <3>1, <3>2, <3>3, <3>4, <4>1, <4>2, <4>3, <4>4, <4>5, <4>6, <4>7, <4>8, <4>9, <4>10,
           <4>11 DEF Crash, Types, TypeOK
    <3>6. ASSUME NEW c \in Calls PROVE Tries(c)'
      <4>1. call'[c] # "record"
        BY <3>2
      <4>2. QED
        BY <1>1, <1>2, <3>1, <3>3, <3>4, <4>1, StaysTried
    <3>7. ASSUME NEW c \in Calls PROVE Reserved(c)'
      BY <1>3, <2>21, <3>1, <3>2 DEF Crash, Reserved, TaskKept, Waiting
    <3>8. ASSUME NEW k \in Kids PROVE Untouched(k)'
      BY <3>3 DEF Untouched, Unknown
    <3>9. ASSUME NEW k \in Kids PROVE Ends(k)'
      BY <1>5, <1>7, <3>1, <3>2, <3>3 DEF Ends, TaskKept, Enders
    <3>10. Limited'
      BY <1>1, <2>21, <3>1, <3>2, <3>3, <3>4, StaysLimited DEF Crash
    <3>11. Distinct'
      BY <1>1, <2>21, <3>1, <3>2, <3>3, <3>4, StaysDistinct DEF Crash
    <3>12. CanceledIsNoEvent'
      BY <1>1, <2>21, <3>1, <3>2, <3>3, <3>4 DEF Crash, CanceledIsNoEvent
    <3>13. QED
      BY <3>5, <3>6, <3>7, <3>8, <3>9, <3>10, <3>11, <3>12 DEF IInv
  <2>22. ASSUME Recover PROVE IInv'
    <3>1. TaskKept /\ ActiveTasks' = ActiveTasks
      BY <2>22, SameTask DEF Recover
    <3>2. \A c \in ActiveTasks : c \in Calls /\ Had(c)
      BY DEF ActiveTasks, Had
    <3>3. run' \in [Kids -> {"off", "claim", "on", "stopped"}] /\ \A k \in Kids : child[k] # "active" => run'[k] = "off"
      BY <2>22 DEF Recover
    <3>4. \A c \in Calls : call[c] \in {"idle", "done"} /\ UNCHANGED call
      BY <1>3, <2>22 DEF Recover, Reserved
    <3>5. todo' \subseteq todo \union ActiveTasks /\ up'
      BY <1>3, <2>22 DEF Recover, Reserved
    <3>6. Types'
      <4>1. parent' \in {"active"} \union Terminal
        BY <1>1, <1>6, <2>22, <3>1, <3>2, <3>3, <3>4, <3>5 DEF Recover, Types, TypeOK, Terminal
      <4>2. exec' \in {"on", "stopped", "off"}
        BY <1>1, <1>6, <2>22, <3>1, <3>2, <3>3, <3>4, <3>5 DEF Recover, Types, TypeOK
      <4>3. run' \in [Kids -> {"off", "claim", "on", "stopped"}]
        BY <1>1, <1>6, <2>22, <3>1, <3>2, <3>3, <3>4, <3>5 DEF Recover
      <4>4. todo' \subseteq Calls
        BY <1>1, <1>6, <2>22, <3>1, <3>2, <3>3, <3>4, <3>5 DEF Recover, Types
      <4>5. boot' \subseteq Calls
        BY <1>1, <1>6, <2>22, <3>1, <3>2, <3>3, <3>4, <3>5 DEF Recover
      <4>6. QED
        BY <1>1, <2>22, <3>1, <3>2, <3>3, <3>4, <3>5, <4>1, <4>2, <4>3, <4>4, <4>5 DEF Recover, Types, TypeOK
    <3>7. ASSUME NEW c \in Calls PROVE Tries(c)'
      <4>1. call'[c] # "record"
        BY <3>4
      <4>2. UNCHANGED <<child, faults, call>> /\ faults \in Nat
        BY <1>1, <2>22 DEF Recover, Types
      <4>3. QED
        BY <1>1, <1>2, <3>1, <4>1, <4>2, StaysTried
    <3>8. ASSUME NEW c \in Calls PROVE Reserved(c)'
      BY <1>3, <2>22, <3>1, <3>2, <3>5 DEF Recover, Reserved, TaskKept
    <3>9. ASSUME NEW k \in Kids PROVE Untouched(k)'
      BY <1>4, <2>22, <3>3 DEF Recover, Untouched, Unknown
    <3>10. ASSUME NEW k \in Kids PROVE Ends(k)'
      <4>1. Ends(k) /\ k[1] \in Calls
        BY <1>5, <1>7
      <4>2. ending'[k] = ending[k] /\ \A v \in Enders : ender'[<<v, k>>] = ender[<<v, k>>]
        BY <1>1, <2>22, <4>1, <3>1, <3>2, <3>3, <3>4, <3>5 DEF Recover
      <4>3. child'[k] = child[k] /\ killed \subseteq killed'
        BY <1>1, <2>22, <4>1, <3>1, <3>2, <3>3, <3>4, <3>5 DEF Recover
      <4>4. call'[k[1]] = "answer" => call[k[1]] = "answer"
        BY <1>1, <2>22, <4>1, <3>1, <3>2, <3>3, <3>4, <3>5 DEF Recover
      <4>5. QED
        BY <1>1, <4>1, <4>2, <4>3, <4>4, <3>1, <3>2, <3>3, <3>4, <3>5, StaysEnding
    <3>11. Limited'
      BY <1>1, <2>22, <3>1, <3>2, <3>3, <3>4, <3>5, StaysLimited DEF Recover
    <3>12. Distinct'
      BY <1>1, <2>22, <3>1, <3>2, <3>3, <3>4, <3>5, StaysDistinct DEF Recover
    <3>13. CanceledIsNoEvent'
      BY <1>1, <2>22, <3>1, <3>2, <3>3, <3>4, <3>5 DEF Recover, CanceledIsNoEvent
    <3>14. QED
      BY <3>6, <3>7, <3>8, <3>9, <3>10, <3>11, <3>12, <3>13 DEF IInv
  <2>23. ASSUME NEW d \in Calls, RecoverTask(d) PROVE IInv'
    <3>1. /\ task' \in [Calls -> [status : {"none", "running"} \union Terminal, kid : Attempts, delivered : BOOLEAN]]
          /\ TaskKept /\ ActiveTasks' \subseteq ActiveTasks
      <4>1. (d \in Blocking) \in BOOLEAN
        OBVIOUS
      <4>2. QED
        BY <1>1, <2>23, <4>1, FinishedTask, SameTask DEF RecoverTask, Types, TypeOK
    <3>2. Types'
      <4>1. task' \in [Calls -> [status : {"none", "running"} \union Terminal, kid : Attempts, delivered : BOOLEAN]]
        BY <1>1, <1>6, <2>23, <3>1 DEF RecoverTask
      <4>2. boot' \subseteq Calls
        BY <1>1, <1>6, <2>23, <3>1 DEF RecoverTask, Types
      <4>3. QED
        BY <1>1, <2>23, <3>1, <4>1, <4>2 DEF RecoverTask, Types, TypeOK
    <3>3. ASSUME NEW c \in Calls PROVE Tries(c)'
      BY <1>1, <1>2, <1>8, <2>23, <3>1, StaysTried DEF RecoverTask, Types, Unknown
    <3>4. ASSUME NEW c \in Calls PROVE Reserved(c)'
      BY <1>1, <1>3, <1>6, <2>23, <3>1 DEF RecoverTask, Reserved, TaskKept
    <3>5. ASSUME NEW k \in Kids PROVE Untouched(k)'
      BY <1>1, <1>4, <2>23, <3>1 DEF RecoverTask, Untouched, Unknown
    <3>6. ASSUME NEW k \in Kids PROVE Ends(k)'
      <4>1. Ends(k) /\ k[1] \in Calls
        BY <1>5, <1>7
      <4>2. ending'[k] = ending[k] /\ \A v \in Enders : ender'[<<v, k>>] = ender[<<v, k>>]
        BY <1>1, <2>23, <4>1, <3>1 DEF RecoverTask
      <4>3. child'[k] = child[k] /\ killed \subseteq killed'
        BY <1>1, <2>23, <4>1, <3>1 DEF RecoverTask
      <4>4. call'[k[1]] = "answer" => call[k[1]] = "answer"
        BY <1>1, <2>23, <4>1, <3>1 DEF RecoverTask
      <4>5. QED
        BY <1>1, <4>1, <4>2, <4>3, <4>4, <3>1, StaysEnding
    <3>7. Limited'
      BY <1>1, <2>23, <3>1, StaysLimited DEF RecoverTask
    <3>8. Distinct'
      BY <1>1, <2>23, <3>1, StaysDistinct DEF RecoverTask
    <3>9. CanceledIsNoEvent'
      <4>1. CASE child[Kid(d)] \in Terminal
        <5>1. (d \in Blocking) \in BOOLEAN /\ task' = Finished(d, child[Kid(d)], d \in Blocking)
          BY <2>23, <4>1 DEF RecoverTask
        <5>2. child[Kid(d)] = "canceled" => d \in killed \/ Over(d)
          BY <1>5, <1>6 DEF Ends
        <5>3. UNCHANGED killed
          BY <2>23 DEF RecoverTask
        <5>4. \A c \in Calls : c # d \/ task[c].status # "running" => task'[c] = task[c]
          BY <1>1, <4>1, <5>1, FinishedTask
        <5>5. task[d].status = "running" => task'[d].status = child[Kid(d)]
          BY <1>1, <4>1, <5>1, FinishedTask
        <5>6. QED
          BY <1>1, <5>2, <5>3, <5>4, <5>5 DEF CanceledIsNoEvent, Over
      <4>2. CASE child[Kid(d)] \notin Terminal
        BY <1>1, <2>23, <4>2 DEF RecoverTask, CanceledIsNoEvent
      <4>3. QED
        BY <4>1, <4>2
    <3>10. QED
      BY <3>2, <3>3, <3>4, <3>5, <3>6, <3>7, <3>8, <3>9 DEF IInv
  <2>24. ASSUME NEW d \in Calls, ~(d \in Background /\ Full), StartSubagent(d) PROVE IInv'
    <3>1. TaskKept /\ ActiveTasks' = ActiveTasks
      BY <2>24, SameTask DEF StartSubagent
    <3>2. PICK n \in 0 .. MaxFaults + 1 : Made(d, n)
      BY <1>2 DEF Tries
    <3>3. ~Had(d) /\ d \notin starting /\ d \notin Given /\ call[d] = "idle"
      BY <1>3, <2>24 DEF StartSubagent, Reserved, Had, NoTask, Given
    <3>4. n \in 0 .. MaxFaults /\ n + 1 \in Attempts /\ n <= faults /\ faults \in Nat
      BY <1>1, <3>2, <3>3, BoundAssumption DEF Made, Types, Attempts
    <3>5. /\ child' = [child EXCEPT ![<<d, n + 1>>] = "active"]
          /\ starting' = starting \union {d}
          /\ name' = [name EXCEPT ![d] = CHOOSE i \in Free : \A m \in Free : i <= m]
          /\ call' = [call EXCEPT ![d] = "record"]
      BY <2>24, <3>2, <3>4, NextIsNext DEF StartSubagent, Goto
    <3>6. /\ <<d, n + 1>> \in Kids /\ child[<<d, n + 1>>] = "none" /\ Unknown(<<d, n + 1>>)
          /\ child' \in [Kids -> {"none", "active", "deleted"} \union Terminal]
          /\ child'[<<d, n + 1>>] = "active" /\ \A k \in Kids : k # <<d, n + 1>> => child'[k] = child[k]
      <4>1. <<d, n + 1>> \in Kids /\ child[<<d, n + 1>>] = "none"
        BY <1>8, <3>2, <3>4 DEF Made
      <4>2. Unknown(<<d, n + 1>>)
        BY <1>4, <4>1 DEF Untouched
      <4>3. QED
        BY <1>1, <3>5, <4>1, <4>2 DEF Types, TypeOK
    <3>7. /\ name' \in [Calls -> 0 .. Cardinality(Calls)]
          /\ \A c \in Calls : c # d => name'[c] = name[c]
          /\ \A c \in Given : name[c] # name'[d]
      <4>1. (CHOOSE i \in Free : \A m \in Free : i <= m) \in Free
        BY <1>1, <1>3, <3>3, NameIsFree
      <4>2. Free \subseteq 0 .. Cardinality(Calls)
        BY CallsAssumption, FS_CardinalityType DEF Free, Names
      <4>3. name'[d] \in Free /\ name' \in [Calls -> 0 .. Cardinality(Calls)] /\ \A c \in Calls : c # d => name'[c] = name[c]
        BY <1>1, <3>5, <4>1, <4>2 DEF Types, TypeOK
      <4>4. \A c \in Given : c \in starting \union {q \in Calls : task[q] # NoTask}
        BY DEF Given, Had, NoTask
      <4>5. QED
        BY <4>3, <4>4 DEF Free
    <3>8. UNCHANGED <<task, run, ender, ending, faults, killed, up, todo, seen, Background>>
      BY <2>24 DEF StartSubagent
    <3>9. \A k \in Kids : (Unknown(k)' <=> Unknown(k))
      BY <3>8 DEF Unknown
    <3>10. call'[d] = "record" /\ \A c \in Calls : c # d => call'[c] = call[c]
      BY <1>1, <3>5 DEF Types
    <3>11. Types'
      BY <1>1, <2>24, <3>5, <3>6, <3>7 DEF StartSubagent, Types, TypeOK
    <3>12. ASSUME NEW c \in Calls PROVE Tries(c)'
      <4>1. CASE c # d
        <5>1. \A m \in Attempts : <<c, m>> # <<d, n + 1>>
          BY <4>1
        <5>2. QED
          BY <1>1, <1>2, <1>8, <3>1, <3>4, <3>6, <3>8, <3>9, <3>10, <4>1, <5>1, StaysTried
      <4>2. CASE c = d
        <5>1. \A m \in Attempts : (child'[<<d, m>>] = "none") <=> (n + 1 < m)
          <6>1. ASSUME NEW m \in Attempts PROVE (child'[<<d, m>>] = "none") <=> (n + 1 < m)
            <7>1. (child[<<d, m>>] = "none") <=> (n < m)
              BY <3>2 DEF Made
            <7>2. m # n + 1 => child'[<<d, m>>] = child[<<d, m>>]
              BY <1>8, <3>6
            <7>3. m \in Nat /\ n \in Nat
              BY <3>4 DEF Attempts
            <7>4. QED
              BY <3>6, <7>1, <7>2, <7>3
          <6>2. QED
            BY <6>1
        <5>2. Made(d, n + 1)'
          BY <3>4, <3>6, <3>8, <3>9, <3>10, <5>1 DEF Made
        <5>3. QED
          BY <3>4, <4>2, <5>2, BoundAssumption DEF Tries
      <4>3. QED
        BY <4>1, <4>2
    <3>13. ASSUME NEW c \in Calls PROVE Reserved(c)'
      <4>1. Had(c) => child'[Kid(c)] = child[Kid(c)]
        BY <1>3, <1>6, <3>6 DEF Reserved, Terminal
      <4>2. up
        BY <1>3, <2>24 DEF StartSubagent, Reserved
      <4>3. CASE c # d
        BY <1>3, <2>24, <3>1, <3>5, <3>8, <3>10, <4>1, <4>3 DEF StartSubagent, Reserved, TaskKept, Waiting
      <4>4. CASE c = d
        BY <1>3, <3>1, <3>3, <3>5, <3>8, <3>10, <4>2, <4>4 DEF Reserved, TaskKept, Waiting
      <4>5. QED
        BY <4>3, <4>4
    <3>14. ASSUME NEW k \in Kids PROVE Untouched(k)'
      BY <1>4, <3>6, <3>9 DEF Untouched
    <3>15. ASSUME NEW k \in Kids PROVE Ends(k)'
      <4>1. Ends(k) /\ k[1] \in Calls
        BY <1>5, <1>7
      <4>2. child'[k] = child[k] \/ (child[k] \notin Terminal /\ child'[k] \notin Terminal)
        BY <3>6 DEF Terminal
      <4>3. call'[k[1]] = "answer" => call[k[1]] = "answer"
        BY <3>10, <4>1
      <4>4. QED
        BY <1>1, <3>1, <3>8, <4>1, <4>2, <4>3, StaysEnding
    <3>16. Limited'
      <4> DEFINE S == (ActiveTasks \union starting) \intersect Background
      <4>1. S \in SUBSET Calls /\ IsFiniteSet(S) /\ Cardinality(S) \in Nat
        <5>1. S \in SUBSET Calls
          BY <1>1 DEF Types
        <5>2. QED
          BY <5>1, CallsAssumption, FS_Subset, FS_CardinalityType
      <4>2. CASE d \in Background
        <5>1. S' = S \union {d} /\ d \notin S
          BY <3>1, <3>3, <3>5, <3>8, <4>2 DEF ActiveTasks, Had
        <5>2. Cardinality(S) < Limit
          BY <2>24, <4>1, <4>2, BoundAssumption DEF Full
        <5>3. Cardinality(S') = Cardinality(S) + 1
          BY <4>1, <5>1, FS_AddElement
        <5>4. QED
          BY <4>1, <5>2, <5>3, BoundAssumption DEF Limited
      <4>3. CASE d \notin Background
        <5>1. S' = S
          BY <3>1, <3>5, <3>8, <4>3
        <5>2. QED
          BY <1>1, <5>1, <3>8 DEF Limited
      <4>4. QED
        BY <4>2, <4>3
    <3>17. Distinct'
      <4>1. Given' = Given \union {d}
        BY <3>1, <3>5 DEF Given, TaskKept
      <4>2. Given \subseteq Calls
        BY <1>1 DEF Given, Types, TypeOK
      <4>3. QED
        BY <1>1, <3>3, <3>7, <4>1, <4>2 DEF Distinct
    <3>18. CanceledIsNoEvent'
      BY <1>1, <3>8 DEF CanceledIsNoEvent
    <3>19. QED
      BY <3>11, <3>12, <3>13, <3>14, <3>15, <3>16, <3>17, <3>18 DEF IInv
  <2>25. ASSUME NEW d \in Calls, exec = "on", Record(d) PROVE IInv'
    <3>1. /\ ~Had(d) /\ task[d] = NoTask /\ d \in starting /\ call[d] = "record"
          /\ up /\ ~seen[d]
      BY <1>1, <1>3, <2>25 DEF Record, Reserved
    <3>2. PICK n \in 0 .. MaxFaults + 1 : Made(d, n)
      BY <1>2 DEF Tries
    <3>3. /\ n \in Attempts /\ child[<<d, n>>] = "active" /\ Newest(d) = n
          /\ n <= faults + 1 /\ faults \in Nat
      <4>1. n > 0 /\ child[<<d, n>>] = "active" /\ n <= faults + 1
        BY <3>1, <3>2 DEF Made
      <4>2. n \in Attempts /\ faults \in Nat
        BY <1>1, <4>1 DEF Attempts, Types
      <4>3. QED
        BY <3>2, <4>1, <4>2, NewestIsLast
    <3>4. /\ task' = [task EXCEPT ![d] = [status |-> "running", kid |-> n, delivered |-> FALSE]]
          /\ call' = [call EXCEPT ![d] = "start"] /\ starting' = starting \ {d}
          /\ UNCHANGED <<Background, name, child, run, ending, ender, seen, todo, up, killed, faults>>
      BY <2>25, <3>3 DEF Record, Goto
    <3>5. /\ task' \in [Calls -> [status : {"none", "running"} \union Terminal, kid : Attempts, delivered : BOOLEAN]]
          /\ task'[d] = [status |-> "running", kid |-> n, delivered |-> FALSE]
          /\ \A c \in Calls : c # d => task'[c] = task[c]
          /\ call'[d] = "start" /\ \A c \in Calls : c # d => call'[c] = call[c]
      BY <1>1, <3>3, <3>4 DEF Types, TypeOK
    <3>6. /\ Had(d)' /\ ~Over(d)' /\ Kid(d)' = <<d, n>>
          /\ \A c \in Calls : c # d => (Had(c)' <=> Had(c)) /\ (Over(c)' <=> Over(c)) /\ Kid(c)' = Kid(c)
      BY <3>5 DEF Had, Over, Kid
    <3>7. \A k \in Kids : (Unknown(k)' <=> Unknown(k))
      BY <3>4 DEF Unknown
    <3>8. Types'
      <4>1. call' \in [Calls -> {"idle", "record", "start", "done"} \union Waiting]
        BY <1>1, <3>4 DEF Types
      <4>2. QED
        BY <1>1, <2>25, <3>4, <3>5, <4>1 DEF Record, Types, TypeOK
    <3>9. ASSUME NEW c \in Calls PROVE Tries(c)'
      <4>1. CASE c = d
        <5>1. Made(d, n)'
          BY <3>2, <3>3, <3>4, <3>5, <3>6 DEF Made
        <5>2. QED
          BY <4>1, <5>1 DEF Tries
      <4>2. CASE c # d
        <5>1. PICK i \in 0 .. MaxFaults + 1 : Made(c, i)
          BY <1>2 DEF Tries
        <5>2. call'[c] = "record" => i \in Attempts
          BY <3>5, <4>2, <5>1 DEF Made, Attempts
        <5>3. Made(c, i)'
          BY <1>8, <3>4, <3>5, <3>6, <3>7, <4>2, <5>1, <5>2 DEF Made
        <5>4. QED
          BY <5>3 DEF Tries
      <4>3. QED
        BY <4>1, <4>2
    <3>10. ASSUME NEW c \in Calls PROVE Reserved(c)'
      <4>1. CASE c = d
        BY <3>1, <3>3, <3>4, <3>5, <3>6, <4>1 DEF Reserved
      <4>2. CASE c # d
        BY <1>3, <2>25, <3>1, <3>4, <3>5, <3>6, <4>2 DEF Record, Reserved
      <4>3. QED
        BY <4>1, <4>2
    <3>11. ASSUME NEW k \in Kids PROVE Untouched(k)'
      BY <1>4, <3>4, <3>7 DEF Untouched
    <3>12. ASSUME NEW k \in Kids PROVE Ends(k)'
      <4>1. Ends(k) /\ k[1] \in Calls
        BY <1>5, <1>7
      <4>2. CASE k[1] = d
        <5>1. ~Over(d)
          BY <3>1 DEF Over, NoTask
        <5>2. QED
          BY <3>4, <3>5, <3>6, <4>1, <4>2, <5>1 DEF Ends
      <4>3. CASE k[1] # d
        BY <3>4, <3>5, <3>6, <4>1, <4>3 DEF Ends
      <4>4. QED
        BY <4>2, <4>3
    <3>13. Limited'
      <4>1. ActiveTasks' \subseteq ActiveTasks \union {d}
        BY <3>5 DEF ActiveTasks
      <4>2. (ActiveTasks \union starting)' \subseteq ActiveTasks \union starting
        BY <3>1, <3>4, <4>1
      <4>3. QED
        BY <1>1, <3>4, <4>2, StaysLimited
    <3>14. Distinct'
      <4>1. Given' \subseteq Given
        BY <3>1, <3>4, <3>6 DEF Given
      <4>2. QED
        BY <1>1, <3>4, <4>1 DEF Distinct
    <3>15. CanceledIsNoEvent'
      BY <1>1, <3>4, <3>5 DEF CanceledIsNoEvent
    <3>16. QED
      BY <3>8, <3>9, <3>10, <3>11, <3>12, <3>13, <3>14, <3>15 DEF IInv
  <2>26. ASSUME NEW d \in Calls, exec # "on", Record(d) PROVE IInv'
    <3>1. TaskKept /\ ActiveTasks' = ActiveTasks
      BY <2>26, SameTask DEF Record
    <3>2. /\ ~Had(d) /\ d \in starting /\ call[d] = "record"
          /\ up /\ ~seen[d]
      BY <1>1, <1>3, <2>26 DEF Record, Reserved
    <3>3. PICK n \in 0 .. MaxFaults + 1 : Made(d, n)
      BY <1>2 DEF Tries
    <3>4. /\ n \in Attempts /\ child[<<d, n>>] = "active" /\ Newest(d) = n /\ faults \in Nat
      <4>1. n > 0 /\ child[<<d, n>>] = "active"
        BY <3>2, <3>3 DEF Made
      <4>2. n \in Attempts /\ faults \in Nat
        BY <1>1, <4>1 DEF Attempts, Types
      <4>3. QED
        BY <3>3, <4>1, <4>2, NewestIsLast
    <3>5. /\ child' = [child EXCEPT ![<<d, n>>] = "deleted"]
          /\ call' = [call EXCEPT ![d] = "done"] /\ starting' = starting \ {d}
          /\ UNCHANGED <<Background, task, name, run, ending, ender, seen, todo, up, killed, faults, exec>>
      BY <2>26, <3>4 DEF Record, Goto
    <3>6. /\ <<d, n>> \in Kids /\ child' \in [Kids -> {"none", "active", "deleted"} \union Terminal]
          /\ child'[<<d, n>>] = "deleted" /\ \A k \in Kids : k # <<d, n>> => child'[k] = child[k]
          /\ call'[d] = "done" /\ \A c \in Calls : c # d => call'[c] = call[c]
      <4>1. <<d, n>> \in Kids
        BY <1>8, <3>4
      <4>2. QED
        BY <1>1, <3>5, <4>1 DEF Types, TypeOK
    <3>7. \A k \in Kids : (Unknown(k)' <=> Unknown(k))
      BY <3>5 DEF Unknown
    <3>8. Types'
      <4>1. call' \in [Calls -> {"idle", "record", "start", "done"} \union Waiting]
        BY <1>1, <3>5 DEF Types
      <4>2. QED
        BY <1>1, <2>26, <3>5, <3>6, <4>1 DEF Record, Types, TypeOK
    <3>9. ASSUME NEW c \in Calls PROVE Tries(c)'
      <4>1. \A m \in Attempts : (child'[<<c, m>>] = "none") <=> (child[<<c, m>>] = "none")
        BY <1>8, <3>4, <3>6
      <4>2. c # d => \A m \in Attempts : child'[<<c, m>>] = child[<<c, m>>]
        <5>1. ASSUME c # d, NEW m \in Attempts PROVE child'[<<c, m>>] = child[<<c, m>>]
          <6>1. <<c, m>> # <<d, n>>
            BY <5>1
          <6>2. QED
            BY <1>8, <3>6, <6>1
        <5>2. QED
          BY <5>1
      <4>3. QED
        BY <1>1, <1>2, <1>8, <3>1, <3>4, <3>5, <3>6, <3>7, <4>1, <4>2, StaysTried
    <3>10. ASSUME NEW c \in Calls PROVE Reserved(c)'
      <4>1. c # d => child'[Kid(c)] = child[Kid(c)]
        BY <1>6, <3>6
      <4>2. CASE c = d
        BY <1>3, <3>1, <3>2, <3>5, <3>6, <4>2 DEF Reserved, TaskKept, Waiting
      <4>3. CASE c # d
        BY <1>3, <3>1, <3>5, <3>6, <4>1, <4>3 DEF Reserved, TaskKept
      <4>4. QED
        BY <4>2, <4>3
    <3>11. ASSUME NEW k \in Kids PROVE Untouched(k)'
      BY <1>4, <3>6, <3>7 DEF Untouched
    <3>12. ASSUME NEW k \in Kids PROVE Ends(k)'
      <4>1. Ends(k) /\ k[1] \in Calls
        BY <1>5, <1>7
      <4>2. child'[k] = child[k] \/ (child[k] \notin Terminal /\ child'[k] \notin Terminal)
        BY <3>4, <3>6 DEF Terminal
      <4>3. call'[k[1]] = "answer" => call[k[1]] = "answer"
        BY <3>6, <4>1
      <4>4. QED
        BY <1>1, <3>1, <3>5, <4>1, <4>2, <4>3, StaysEnding
    <3>13. Limited'
      BY <1>1, <2>26, <3>1, <3>2, <3>3, <3>4, <3>5, <3>6, <3>7, StaysLimited DEF Record
    <3>14. Distinct'
      BY <1>1, <2>26, <3>1, <3>2, <3>3, <3>4, <3>5, <3>6, <3>7, StaysDistinct DEF Record
    <3>15. CanceledIsNoEvent'
      BY <1>1, <2>26, <3>1, <3>2, <3>3, <3>4, <3>5, <3>6, <3>7 DEF Record, CanceledIsNoEvent
    <3>16. QED
      BY <3>8, <3>9, <3>10, <3>11, <3>12, <3>13, <3>14, <3>15 DEF IInv
  <2> QED
    BY <1>9, <2>1, <2>2, <2>3, <2>4, <2>5, <2>6, <2>7, <2>8, <2>9, <2>10, <2>11, <2>12, <2>13, <2>14, <2>15,
       <2>16, <2>17, <2>18, <2>19, <2>20, <2>21, <2>22, <2>23, <2>24, <2>25, <2>26 DEF Next, Work, CallStep,
       EndStep, StopStep
<1>10. CASE UNCHANGED vars
  <2>1. TaskKept /\ ActiveTasks' = ActiveTasks
    BY <1>10, SameTask DEF vars
  <2>2. Types' /\ CanceledIsNoEvent'
    BY <1>1, <1>10 DEF vars, Types, TypeOK, CanceledIsNoEvent
  <2>3. Limited' /\ Distinct'
    BY <1>1, <1>10, <2>1, StaysLimited, StaysDistinct DEF vars
  <2>4. ASSUME NEW k \in Kids PROVE (Unknown(k)' <=> Unknown(k)) /\ Untouched(k)' /\ Ends(k)'
    <3>1. Unknown(k)' <=> Unknown(k)
      BY <1>10 DEF vars, Unknown
    <3>2. Ends(k)'
      BY <1>1, <1>5, <1>7, <1>10, <2>1, StaysEnding DEF vars
    <3>3. QED
      BY <1>4, <1>10, <3>1, <3>2 DEF vars, Untouched
  <2>5. ASSUME NEW c \in Calls PROVE Reserved(c)' /\ Tries(c)'
    <3>1. faults \in Nat
      BY <1>1 DEF Types
    <3>2. Tries(c)'
      BY <1>1, <1>2, <1>8, <1>10, <2>1, <2>4, <3>1, StaysTried DEF vars
    <3>3. QED
      BY <1>3, <1>10, <2>1, <3>2 DEF vars, Reserved, TaskKept
  <2>6. QED
    BY <2>2, <2>3, <2>4, <2>5 DEF IInv
<1>11. QED
  BY <1>9, <1>10

(* No call has started a child yet.                                         *)
LEMMA InvInit == Init => IInv
<1> SUFFICES ASSUME Init PROVE IInv
  OBVIOUS
<1>1. Cardinality(Calls) \in Nat /\ 1 \in Attempts /\ 0 \in 0 .. MaxFaults /\ Background \subseteq Calls
  BY CallsAssumption, BoundAssumption, FS_CardinalityType DEF Init, Attempts
<1>2. Types
  <2>1. task \in [Calls -> [status : {"none", "running"} \union Terminal, kid : Attempts, delivered : BOOLEAN]]
    BY <1>1 DEF Init, NoTask
  <2>2. QED
    BY <1>1, <2>1 DEF Init, Types, TypeOK
<1>3. ASSUME NEW c \in Calls PROVE Tries(c) /\ Reserved(c)
  <2>1. \A m \in Attempts : <<c, m>> \in Kids /\ 0 < m
    BY BoundAssumption DEF Kids, Attempts
  <2>2. Made(c, 0)
    BY <2>1 DEF Init, Made, Had
  <2>3. Tries(c)
    BY <2>2, BoundAssumption DEF Tries
  <2>4. QED
    BY <2>3 DEF Init, Reserved, Had, NoTask, Waiting
<1>4. ASSUME NEW k \in Kids PROVE Untouched(k) /\ Ends(k)
  <2>1. run[k] = "off" /\ child[k] = "none" /\ \A w \in Enders : ender[<<w, k>>] = "off"
    BY DEF Init
  <2>2. k[1] \in Calls /\ call[k[1]] = "idle"
    BY DEF Init, Kids
  <2>3. QED
    BY <2>1, <2>2 DEF Untouched, Unknown, Ends, Enders
<1>5. Limited /\ Distinct /\ CanceledIsNoEvent
  <2>1. ActiveTasks = {} /\ Given = {}
    BY DEF Init, ActiveTasks, Given, Had, NoTask
  <2>2. (ActiveTasks \union starting) \intersect Background = {}
    BY <2>1 DEF Init
  <2>3. Cardinality((ActiveTasks \union starting) \intersect Background) = 0
    BY <2>2, FS_EmptySet
  <2>4. QED
    BY <2>1, <2>3, BoundAssumption DEF Init, Limited, Distinct, CanceledIsNoEvent, NoTask
<1>6. QED
  BY <1>2, <1>3, <1>4, <1>5 DEF IInv

(* However calls, their children's ends, cancels, crashes and recovery      *)
(* interleave, reservations, tasks, children and the threads that end them  *)
(* agree: the inductive invariant behind the theorems below.                *)
THEOREM StartsInvariant == Spec => []IInv
BY InvInit, InvStep, PTL DEF Spec

(* Every variable holds what the code may store in it, for any bounds.      *)
THEOREM TypeCorrect == Spec => []TypeOK
<1>1. IInv => TypeOK
  BY DEF IInv, Types
<1>2. QED
  BY <1>1, StartsInvariant, PTL

(* However many calls start their children at once, the children in the     *)
(* background stay within the limit and no two are given one name.          *)
THEOREM LimitAndNamesKept == Spec => []StartsKeepLimit
<1>1. IInv => StartsKeepLimit
  <2> SUFFICES ASSUME IInv PROVE StartsKeepLimit
    OBVIOUS
  <2>1. Types /\ Limited /\ Distinct /\ \A c \in Calls : Reserved(c)
    BY DEF IInv
  <2> DEFINE S == ActiveTasks \intersect Background
             T == (ActiveTasks \union starting) \intersect Background
  <2>2. S \in SUBSET T /\ T \in SUBSET Calls
    BY <2>1 DEF Types
  <2>3. IsFiniteSet(T) /\ Cardinality(T) \in Nat
    BY <2>2, CallsAssumption, FS_Subset, FS_CardinalityType
  <2>4. Cardinality(S) \in Nat /\ Cardinality(S) <= Cardinality(T)
    BY <2>2, <2>3, FS_Subset, FS_CardinalityType
  <2>5. Cardinality(S) <= Limit
    BY <2>1, <2>3, <2>4, BoundAssumption DEF Limited
  <2>6. \A c \in Calls : task[c] # NoTask => c \in Given
    BY <2>1 DEF Reserved, Given
  <2>7. QED
    BY <2>1, <2>5, <2>6 DEF StartsKeepLimit, Distinct
<1>2. QED
  BY <1>1, StartsInvariant, PTL

(* A call answers once its child's run ended and no thread that ended it    *)
(* has anything left to do, across cancels, crashes and children run again. *)
THEOREM AnsweredAfterEnd == Spec => []AnswersAfterEnd
<1>1. IInv => AnswersAfterEnd
  <2> SUFFICES ASSUME IInv, NEW c \in Calls, call[c] = "answer"
               PROVE  /\ child[Kid(c)] \in Terminal
                      /\ \A w \in Enders : ender[<<w, Kid(c)>>] \notin {"sync", "end"}
    BY DEF AnswersAfterEnd
  <2>1. Kid(c) \in Kids /\ Kid(c)[1] = c
    BY KidTyped DEF IInv
  <2>2. Reserved(c) /\ Ends(Kid(c))
    BY <2>1 DEF IInv
  <2>3. QED
    BY <2>1, <2>2 DEF Reserved, Ends
<1>2. QED
  BY <1>1, StartsInvariant, PTL

(* The task of a child its parent's cancel ended is marked delivered,       *)
(* though the child's own end comes later and by another thread.            *)
THEOREM CanceledUntold == Spec => []CanceledIsNoEvent
<1>1. IInv => CanceledIsNoEvent
  BY DEF IInv
<1>2. QED
  BY <1>1, StartsInvariant, PTL

(* No step forgets the task of a call or gives it another child.            *)
LEMMA StepKeeps ==
    ASSUME IInv, [Next]_vars, NEW c \in Calls, Had(c)
    PROVE  Had(c)' /\ task'[c].kid = task[c].kid
<1>1. Types /\ (\A d \in Calls : Reserved(d)) /\ \A k \in Kids : Ends(k)
  BY DEF IInv
<1>2. CASE UNCHANGED task
  BY <1>2 DEF Had
<1>3. ASSUME NEW d \in Calls, NEW s \in Terminal, NEW b \in BOOLEAN, task' = Finished(d, s, b)
      PROVE  Had(c)' /\ task'[c].kid = task[c].kid
  BY <1>1, <1>3, FinishedTask DEF TaskKept, Kid
<1>4. ASSUME NEW d \in Calls, Record(d) PROVE Had(c)' /\ task'[c].kid = task[c].kid
  <2>1. c # d
    BY <1>1, <1>4 DEF Record, Reserved
  <2>2. task'[c] = task[c]
    BY <1>1, <1>4, <2>1 DEF Record, Types, TypeOK
  <2>3. QED
    BY <2>2 DEF Had
<1>5. ASSUME NEW d \in Calls, Answer(d) PROVE Had(c)' /\ task'[c].kid = task[c].kid
  BY <1>1, <1>3, <1>5 DEF Answer, Reserved
<1>6. ASSUME NEW w \in Enders, NEW k \in Kids, Sync(w, k) PROVE Had(c)' /\ task'[c].kid = task[c].kid
  <2>1. k[1] \in Calls /\ child[k] \in Terminal /\ (k[1] \in Blocking) \in BOOLEAN
    <3>1. Ends(k) /\ ender[<<w, k>>] = "sync"
      BY <1>1, <1>6 DEF Sync
    <3>2. QED
      BY <3>1 DEF Ends, Kids
  <2>2. UNCHANGED task \/ task' = Finished(k[1], child[k], k[1] \in Blocking)
    BY <1>6 DEF Sync
  <2>3. QED
    BY <1>2, <1>3, <2>1, <2>2
<1>7. ASSUME NEW d \in Calls, CancelTask(d) PROVE Had(c)' /\ task'[c].kid = task[c].kid
  BY <1>3, <1>7 DEF CancelTask, Terminal
<1>8. ASSUME NEW d \in Calls, RecoverTask(d) PROVE Had(c)' /\ task'[c].kid = task[c].kid
  <2>1. (d \in Blocking) \in BOOLEAN
    OBVIOUS
  <2>2. QED
    BY <1>2, <1>3, <1>8, <2>1 DEF RecoverTask
<1>9. QED
  BY <1>2, <1>4, <1>5, <1>6, <1>7, <1>8
     DEF Next, Work, CallStep, EndStep, StopStep, vars, StartSubagent, Rejoin, StartChild, Look, Decide, Woken,
         Commit, End, Claim, ChildEnds, ChildStops, Kill, ParentEnds, ParentStops, Cancel, CancelParent, Halt,
         Crash, Recover

(* No step gives a call with a task another child, or forgets its task.     *)
THEOREM ChildKept == Spec => CallKeepsChild
<1>1. ASSUME IInv, [Next]_vars, NEW c \in Calls, task[c] # NoTask
      PROVE  task'[c].kid = task[c].kid /\ task'[c] # NoTask
  <2>1. Had(c)
    BY <1>1 DEF IInv, Reserved
  <2>2. Had(c)' /\ task'[c].kid = task[c].kid
    BY <1>1, <2>1, StepKeeps
  <2>3. QED
    BY <2>2 DEF Had, NoTask
<1>2. IInv /\ [Next]_vars => \A c \in Calls : task[c] # NoTask => task'[c].kid = task[c].kid /\ task'[c] # NoTask
  BY <1>1
<1>3. QED
  BY <1>2, StartsInvariant, PTL DEF Spec, CallKeepsChild
=============================================================================
