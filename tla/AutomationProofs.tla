--------------------------- MODULE AutomationProofs ---------------------------
(***************************************************************************)
(* Each schedule starts one run, is settled before its job passes it and   *)
(* is delivered once: proved for any jobs, times, windows, changes and     *)
(* crashes.                                                                *)
(***************************************************************************)
EXTENDS Automation, TLAPS

Servers  == {"tick", "now"}
Serving  == {"create", "duplicate", "accept", "complete", "fail", "deliver", "advance", "store"}
Labels   == Serving \union {"off", "next", "change"}
Statuses == {"none", "running", "completed", "failed"}
Ended    == {"completed", "failed"}
Rows     == [status : {"none", "active", "stopped"}, due : 0 .. LastTime, last : 0 .. LastTime]

(* Fires keep their first id, so that their runs keep their name. *)
Shape ==
    /\ now \in 0 .. LastTime
    /\ job \in [Jobs -> Rows]
    /\ fire \in [Fires -> [status : Statuses, id : {1}]]
    /\ delivered \in [Fires -> 0 .. 1]
    /\ pc \in [Threads -> Labels]
    /\ at \in [Threads -> (Jobs \X (Times \union {Asked})) \union {NoJob}]
    /\ row \in [Threads -> Rows]
    /\ due \subseteq Jobs \X Times
    /\ \A r \in runs : r = <<r[1], r[2], 1>>

(* What a thread knows of the fire it serves.  A tick's fire and one asked  *)
(* for now are never the same.                                              *)
Serves(t) ==
    pc[t] \in Serving =>
        /\ at[t] \in Jobs \X (IF t = "tick" THEN Times ELSE {Asked})
        /\ pc[t] = "duplicate" => fire[at[t]].status # "none"
        /\ pc[t] \in {"accept", "complete", "fail"} => fire[at[t]].status = "running"
        /\ pc[t] = "deliver" => fire[at[t]].status = "completed" /\ delivered[at[t]] = 0
        /\ pc[t] \in {"advance", "store"} => fire[at[t]].status \in Ended
        /\ pc[t] = "store" => row[t].last = at[t][2]

(* What a client read of a job it is to change. *)
Changes ==
    pc["client"] = "change" =>
        /\ at["client"] \in Jobs \X {Asked}
        /\ row["client"].last # Never => Settled(<<at["client"][1], row["client"].last>>)

Deliveries ==
    \A f \in Fires :
        /\ delivered[f] # 0 => fire[f].status = "completed"
        /\ (delivered[f] = 0 /\ fire[f].status = "completed" /\ f \notin lost)
              => \E t \in Servers : pc[t] = "deliver" /\ at[t] = f

FireInv ==
    /\ Shape
    /\ \A t \in Servers : Serves(t)
    /\ Changes
    /\ PassesOnlySettled
    /\ Deliveries

-----------------------------------------------------------------------------
LEMMA TimesAreTimes == Times \subseteq 0 .. LastTime /\ Asked \notin Times /\ Asked \in 0 .. LastTime
  BY TimeAssumption DEF Times, Asked

LEMMA PairsOfFires == \A f \in Fires : f = <<f[1], f[2]>> /\ f[1] \in Jobs /\ f[2] \in Times \union {Asked}
  BY DEF Fires

LEMMA InitFires == Init => FireInv
  <1> SUFFICES ASSUME Init PROVE FireInv
    OBVIOUS
  <1>1. job \in [Jobs -> Rows] /\ \A j \in Jobs : job[j].last = Never
    <2>1. \A t \in Times : Row("active", t, Never) \in Rows /\ Row("active", t, Never).last = Never
      BY TimesAreTimes DEF Row, Rows, Never, Asked
    <2>2. job \in [Jobs -> {Row("active", t, Never) : t \in Times}]
      BY DEF Init
    <2> QED BY <2>1, <2>2
  <1>2. Shape
    <2>1. NoFire \in [status : Statuses, id : {1}] /\ NoRow \in Rows
      BY TimeAssumption DEF NoFire, NoRow, Statuses, Rows, Never
    <2> QED BY <1>1, <2>1, TimeAssumption DEF Init, Shape, Labels
  <1>3. \A t \in Servers : Serves(t)
    BY DEF Init, Serves, Serving, Servers, Threads
  <1>4. Changes /\ PassesOnlySettled
    BY <1>1 DEF Init, Changes, PassesOnlySettled, Threads
  <1>5. Deliveries
    BY DEF Init, Deliveries, NoFire
  <1> QED BY <1>2, <1>3, <1>4, <1>5 DEF FireInv

-----------------------------------------------------------------------------
(* A thread at its fire: the other server has another one, and what is      *)
(* settled stays so.                                                        *)
LEMMA AtFire ==
  ASSUME FireInv, NEW t \in Servers, NEW l \in Labels, pc[t] \in Serving,
         pc' = [pc EXCEPT ![t] = l], UNCHANGED <<now, job, at, due, row, lost>>,
         fire' \in [Fires -> [status : Statuses, id : {1}]],
         delivered' \in [Fires -> 0 .. 1],
         \A f \in Fires \ {at[t]} : fire'[f] = fire[f] /\ delivered'[f] = delivered[f],
         fire[at[t]].status \in Ended => fire'[at[t]].status \in Ended,
         \A r \in runs' : r = <<r[1], r[2], 1>>,
         Serves(t)',
         delivered'[at[t]] # 0 => fire'[at[t]].status = "completed",
         delivered'[at[t]] = 0 /\ fire'[at[t]].status = "completed" => l = "deliver" \/ at[t] \in lost
  PROVE  FireInv'
  <1>1. at[t] \in Fires
    BY TimesAreTimes DEF FireInv, Serves, Fires, Servers
  <1>2. \A u \in Threads : pc'[u] = IF u = t THEN l ELSE pc[u]
    BY DEF FireInv, Shape
  <1>3. t \in Threads
    BY DEF Servers, Threads
  <1>4. \A f \in Fires : Settled(f) => Settled(f)'
    BY DEF Settled, Ended
  <1>5. Shape'
    BY <1>3 DEF FireInv, Shape
  <1>6. \A u \in Servers : Serves(u)'
    <2> SUFFICES ASSUME NEW u \in Servers, u # t PROVE Serves(u)'
      OBVIOUS
    <2>1. pc'[u] = pc[u] /\ at'[u] = at[u] /\ row'[u] = row[u]
      BY <1>2 DEF Servers, Threads
    <2>2. pc[u] \in Serving => at[u] \in Fires /\ at[u] # at[t]
      BY TimesAreTimes DEF FireInv, Serves, Servers, Fires
    <2>3. pc[u] \in Serving => fire'[at[u]] = fire[at[u]] /\ delivered'[at[u]] = delivered[at[u]]
      BY <2>2
    <2> QED BY <2>1, <2>3 DEF FireInv, Serves
  <1>7. Changes'
    <2>1. pc'["client"] = pc["client"]
      BY <1>2 DEF Threads, Servers
    <2> SUFFICES ASSUME pc["client"] = "change"
                 PROVE  /\ at["client"] \in Jobs \X {Asked}
                        /\ row["client"].last # Never => Settled(<<at["client"][1], row["client"].last>>)'
      BY <2>1 DEF Changes
    <2>2. row["client"].last # Never => <<at["client"][1], row["client"].last>> \in Fires
      <3>1. row["client"].last \in 0 .. LastTime
        BY DEF FireInv, Shape, Rows, Threads
      <3> QED BY <3>1, TimeAssumption DEF FireInv, Changes, Fires, Times, Never
    <2> QED BY <2>2, <1>4 DEF FireInv, Changes
  <1>8. PassesOnlySettled'
    <2> SUFFICES ASSUME NEW j \in Jobs, job[j].last # Never
                 PROVE  Settled(<<j, job[j].last>>)'
      BY DEF PassesOnlySettled
    <2>1. <<j, job[j].last>> \in Fires
      <3>1. job[j].last \in 0 .. LastTime
        BY DEF FireInv, Shape, Rows
      <3> QED BY <3>1, TimeAssumption DEF Fires, Times, Never
    <2> QED BY <2>1, <1>4 DEF FireInv, PassesOnlySettled
  <1>9. Deliveries'
    <2> SUFFICES ASSUME NEW f \in Fires
                 PROVE  /\ delivered'[f] # 0 => fire'[f].status = "completed"
                        /\ (delivered'[f] = 0 /\ fire'[f].status = "completed" /\ f \notin lost')
                              => \E u \in Servers : pc'[u] = "deliver" /\ at'[u] = f
      BY DEF Deliveries
    <2>1. CASE f = at[t]
      BY <2>1, <1>2, <1>3
    <2>2. CASE f # at[t]
      <3>1. fire'[f] = fire[f] /\ delivered'[f] = delivered[f]
        BY <2>2
      <3>2. ASSUME NEW u \in Servers, pc[u] = "deliver", at[u] = f
            PROVE  pc'[u] = "deliver" /\ at'[u] = f
        BY <3>2, <2>2, <1>2 DEF Servers, Threads
      <3> QED BY <3>1, <3>2 DEF FireInv, Deliveries
    <2> QED BY <2>1, <2>2
  <1> QED BY <1>5, <1>6, <1>7, <1>8, <1>9 DEF FireInv

(* A server that leaves its fire, or is at none yet. *)
LEMMA Elsewhere ==
  ASSUME FireInv, NEW t \in Servers, NEW l \in Labels \ {"deliver"}, pc[t] # "deliver",
         NEW a \in (Jobs \X (Times \union {Asked})) \union {NoJob},
         pc' = [pc EXCEPT ![t] = l], at' = [at EXCEPT ![t] = a],
         UNCHANGED <<now, fire, runs, delivered, lost>>,
         due' \subseteq Jobs \X Times,
         job' \in [Jobs -> Rows], row' \in [Threads -> Rows],
         \A u \in Threads \ {t} : row'[u] = row[u],
         PassesOnlySettled', Serves(t)'
  PROVE  FireInv'
  <1>1. t \in Threads /\ "client" \in Threads /\ "client" # t
    BY DEF Servers, Threads
  <1>2. /\ \A u \in Threads : pc'[u] = IF u = t THEN l ELSE pc[u]
        /\ \A u \in Threads : at'[u] = IF u = t THEN a ELSE at[u]
    BY DEF FireInv, Shape
  <1>3. Shape'
    BY <1>1 DEF FireInv, Shape
  <1>4. \A u \in Servers : Serves(u)'
    <2> SUFFICES ASSUME NEW u \in Servers, u # t PROVE Serves(u)'
      OBVIOUS
    <2>1. pc'[u] = pc[u] /\ at'[u] = at[u] /\ row'[u] = row[u]
      BY <1>2 DEF Servers, Threads
    <2> QED BY <2>1 DEF FireInv, Serves
  <1>5. Changes'
    BY <1>1, <1>2 DEF FireInv, Changes, Settled
  <1>6. Deliveries'
    BY <1>2 DEF FireInv, Deliveries, Servers, Threads
  <1> QED BY <1>3, <1>4, <1>5, <1>6 DEF FireInv

(* What leaves the jobs' rows alone keeps PassesOnlySettled. *)
LEMMA RowsStay ==
  ASSUME FireInv, UNCHANGED <<job, fire>>
  PROVE  PassesOnlySettled'
  BY DEF FireInv, PassesOnlySettled, Settled

-----------------------------------------------------------------------------
LEMMA CreateStep ==
  ASSUME FireInv, NEW t \in Servers, CreateFire(t)
  PROVE  FireInv'
  <1> DEFINE f == at[t]
  <1>1. pc[t] \in Serving /\ f \in Fires
    BY TimesAreTimes DEF CreateFire, Serving, FireInv, Serves, Fires, Servers
  <1>2. t \in Threads /\ at' = at /\ row' = row
    BY DEF CreateFire, Servers, Threads
  <1>3. CASE fire[f].status = "none"
    <2>1. fire' = [fire EXCEPT ![f].status = "running"] /\ pc' = [pc EXCEPT ![t] = "accept"]
      BY <1>3 DEF CreateFire, Goto
    <2>2. fire' \in [Fires -> [status : Statuses, id : {1}]] /\ fire'[f].status = "running"
      BY <1>1, <2>1 DEF FireInv, Shape, Statuses
    <2>3. Serves(t)'
      BY <1>1, <1>2, <2>1, <2>2 DEF FireInv, Shape, Serves
    <2>4. \A g \in Fires \ {f} : fire'[g] = fire[g]
      BY <2>1 DEF FireInv, Shape
    <2>5. delivered[f] = 0
      BY <1>1, <1>3 DEF FireInv, Deliveries
    <2> QED BY <1>1, <1>3, <2>1, <2>2, <2>3, <2>4, <2>5, AtFire DEF CreateFire, FireInv, Shape, Labels, Serving, Ended
  <1>4. CASE fire[f].status # "none"
    <2>1. fire' = fire /\ pc' = [pc EXCEPT ![t] = "duplicate"]
      BY <1>4 DEF CreateFire, Goto
    <2>2. Serves(t)'
      BY <1>1, <1>2, <1>4, <2>1 DEF FireInv, Shape, Serves
    <2>3. fire[f].status = "completed" /\ delivered[f] = 0 => f \in lost
      <3> SUFFICES ASSUME NEW u \in Servers, pc[u] = "deliver", at[u] = f PROVE FALSE
        BY <1>1 DEF FireInv, Deliveries
      <3> QED BY <1>1, TimesAreTimes DEF CreateFire, FireInv, Serves, Servers, Serving
    <2> QED BY <1>1, <2>1, <2>2, <2>3, AtFire DEF CreateFire, FireInv, Shape, Labels, Serving, Deliveries
  <1> QED BY <1>3, <1>4

(* While a server is at another step of a fire than its delivery, no server *)
(* delivers it.                                                             *)
LEMMA NotDelivered ==
  ASSUME FireInv, NEW t \in Servers, pc[t] \in Serving \ {"deliver"}
  PROVE  /\ at[t] \in Fires
         /\ delivered[at[t]] # 0 => fire[at[t]].status = "completed"
         /\ fire[at[t]].status = "completed" /\ delivered[at[t]] = 0 => at[t] \in lost
  <1>1. at[t] \in Fires
    BY TimesAreTimes DEF FireInv, Serves, Fires, Servers
  <1>2. \A u \in Servers : pc[u] = "deliver" => at[u] # at[t]
    BY TimesAreTimes DEF FireInv, Serves, Servers, Serving
  <1> QED BY <1>1, <1>2 DEF FireInv, Deliveries

(* A step of a server that moves it and leaves the fires alone. *)
LEMMA Passes ==
  ASSUME FireInv, NEW t \in Servers, NEW l \in Labels, pc[t] \in Serving \ {"deliver"},
         pc' = [pc EXCEPT ![t] = l], UNCHANGED <<now, job, at, due, row, lost, fire, delivered>>,
         \A r \in runs' : r = <<r[1], r[2], 1>>,
         Serves(t)'
  PROVE  FireInv'
  BY NotDelivered, AtFire DEF FireInv, Shape

LEMMA DuplicateStep ==
  ASSUME FireInv, NEW t \in Servers, DuplicateFire(t)
  PROVE  FireInv'
  <1>1. pc[t] = "duplicate" /\ t \in Threads
    BY DEF DuplicateFire, Servers, Threads
  <1>2. at[t] \in Fires
    BY <1>1, NotDelivered DEF Serving
  <1>3. fire[at[t]].status \in Statuses \ {"none"}
    BY <1>1, <1>2 DEF FireInv, Shape, Serves, Serving
  <1>4. PICK l \in {"advance", "accept"} :
           /\ pc' = [pc EXCEPT ![t] = l]
           /\ l = "advance" <=> Settled(at[t])
    BY DEF DuplicateFire, Goto
  <1>5. Serves(t)'
    BY <1>1, <1>3, <1>4 DEF DuplicateFire, FireInv, Shape, Serves, Settled, Ended, Statuses, Serving
  <1> QED BY <1>1, <1>4, <1>5, Passes DEF DuplicateFire, FireInv, Shape, Labels, Serving

LEMMA AcceptStep ==
  ASSUME FireInv, NEW t \in Servers, AcceptRun(t)
  PROVE  FireInv'
  <1>1. pc[t] = "accept" /\ t \in Threads /\ pc' = [pc EXCEPT ![t] = "complete"]
    BY DEF AcceptRun, Servers, Threads, Goto
  <1>2. at[t] \in Fires
    BY <1>1, NotDelivered DEF Serving
  <1>3. RunOf(at[t]) = <<at[t][1], at[t][2], 1>>
    BY <1>2 DEF RunOf, FireInv, Shape
  <1>4. \A r \in runs' : r = <<r[1], r[2], 1>>
    BY <1>3 DEF AcceptRun, FireInv, Shape
  <1>5. Serves(t)'
    BY <1>1 DEF AcceptRun, FireInv, Shape, Serves, Serving
  <1> QED BY <1>1, <1>4, <1>5, Passes DEF AcceptRun, Labels, Serving

LEMMA FailingStep ==
  ASSUME FireInv, NEW t \in Servers, GiveUpBusy(t) \/ RefuseTrigger(t)
  PROVE  FireInv'
  <1>1. pc[t] = "accept" /\ t \in Threads /\ pc' = [pc EXCEPT ![t] = "fail"]
    BY DEF GiveUpBusy, RefuseTrigger, SessionBusy, Servers, Threads, Goto
  <1>2. at[t] \in Fires
    BY <1>1, NotDelivered DEF Serving
  <1>3. RunOf(at[t]) = <<at[t][1], at[t][2], 1>>
    BY <1>2 DEF RunOf, FireInv, Shape
  <1>4. \A r \in runs' : r = <<r[1], r[2], 1>>
    BY <1>3 DEF GiveUpBusy, RefuseTrigger, FireInv, Shape
  <1>5. UNCHANGED <<now, job, at, due, row, lost, fire, delivered>>
    BY DEF GiveUpBusy, RefuseTrigger
  <1>6. Serves(t)'
    BY <1>1, <1>5 DEF FireInv, Shape, Serves, Serving
  <1> QED BY <1>1, <1>4, <1>5, <1>6, Passes DEF Labels, Serving

(* A fire is settled, its run delivered next, or it failed. *)
LEMMA SettleStep ==
  ASSUME FireInv, NEW t \in Servers, CompleteFire(t) \/ FailFire(t)
  PROVE  FireInv'
  <1>1. PICK s \in Ended, l \in {"deliver", "advance"} :
           /\ fire' = [fire EXCEPT ![at[t]].status = s]
           /\ pc' = [pc EXCEPT ![t] = l]
           /\ l = "deliver" <=> s = "completed"
    BY DEF CompleteFire, FailFire, Goto, Ended
  <1>2. pc[t] \in {"complete", "fail"} /\ t \in Threads /\ UNCHANGED <<now, job, at, due, row, lost, delivered, runs>>
    BY DEF CompleteFire, FailFire, Servers, Threads
  <1>3. at[t] \in Fires /\ fire[at[t]].status = "running" /\ delivered[at[t]] = 0
    BY <1>2, NotDelivered DEF FireInv, Serves, Serving, Shape
  <1>4. /\ fire' \in [Fires -> [status : Statuses, id : {1}]]
        /\ fire'[at[t]].status = s
        /\ \A f \in Fires \ {at[t]} : fire'[f] = fire[f]
    BY <1>1, <1>3 DEF FireInv, Shape, Statuses, Ended
  <1>5. Serves(t)'
    BY <1>1, <1>2, <1>3, <1>4 DEF FireInv, Shape, Serves, Serving, Ended
  <1> QED BY <1>1, <1>2, <1>3, <1>4, <1>5, AtFire DEF FireInv, Shape, Labels, Serving, Ended

LEMMA DeliverStep ==
  ASSUME FireInv, NEW t \in Servers, Deliver(t)
  PROVE  FireInv'
  <1>1. /\ pc[t] = "deliver" /\ t \in Threads
        /\ delivered' = [delivered EXCEPT ![at[t]] = @ + 1]
        /\ pc' = [pc EXCEPT ![t] = "advance"]
        /\ UNCHANGED <<now, job, at, due, row, lost, fire, runs>>
    BY DEF Deliver, Servers, Threads, Goto
  <1>2. at[t] \in Fires /\ fire[at[t]].status = "completed" /\ delivered[at[t]] = 0
    BY <1>1, TimesAreTimes DEF FireInv, Serves, Serving, Fires, Servers
  <1>3. /\ delivered' \in [Fires -> 0 .. 1]
        /\ delivered'[at[t]] = 1
        /\ \A f \in Fires \ {at[t]} : delivered'[f] = delivered[f]
    BY <1>1, <1>2 DEF FireInv, Shape
  <1>4. Serves(t)'
    BY <1>1, <1>2 DEF FireInv, Shape, Serves, Serving, Ended
  <1>5. /\ fire' \in [Fires -> [status : Statuses, id : {1}]]
        /\ \A f \in Fires \ {at[t]} : fire'[f] = fire[f] /\ delivered'[f] = delivered[f]
        /\ \A r \in runs' : r = <<r[1], r[2], 1>>
    BY <1>1, <1>3 DEF FireInv, Shape
  <1>6. "advance" \in Labels /\ pc[t] \in Serving
    BY <1>1 DEF Labels, Serving
  <1>7. /\ delivered'[at[t]] # 0 => fire'[at[t]].status = "completed"
        /\ delivered'[at[t]] = 0 /\ fire'[at[t]].status = "completed" => "advance" = "deliver" \/ at[t] \in lost
        /\ fire[at[t]].status \in Ended => fire'[at[t]].status \in Ended
    BY <1>1, <1>2, <1>3
  <1>8. pc' = [pc EXCEPT ![t] = "advance"] /\ UNCHANGED <<now, job, at, due, row, lost>>
    BY <1>1
  <1>9. delivered' \in [Fires -> 0 .. 1]
    BY <1>3
  <1> QED BY <1>4, <1>5, <1>6, <1>7, <1>8, <1>9, AtFire

LEMMA DeliverFailsStep ==
  ASSUME FireInv, NEW t \in Servers, DeliverFails(t)
  PROVE  FireInv'
  <1>1. /\ pc[t] = "deliver" /\ t \in Threads /\ "client" \in Threads /\ t # "client"
        /\ lost' = lost \union {at[t]}
        /\ UNCHANGED <<now, job, fire, runs, delivered, due, row>>
    BY DEF DeliverFails, Servers, Threads
  <1>2. PICK l \in {"next", "off"} : pc' = [pc EXCEPT ![t] = l] /\ at' = [at EXCEPT ![t] = NoJob]
    BY DEF DeliverFails, Done, Goto
  <1>3. Shape'
    BY <1>1, <1>2 DEF FireInv, Shape, Labels
  <1>4. \A u \in Servers : Serves(u)'
    BY <1>1, <1>2 DEF FireInv, Shape, Serves, Serving
  <1>5. Changes'
    BY <1>1, <1>2 DEF FireInv, Shape, Changes, Settled
  <1>6. PassesOnlySettled'
    BY <1>1, RowsStay DEF FireInv
  <1>7. Deliveries'
    BY <1>1, <1>2 DEF FireInv, Shape, Deliveries, Servers, Threads
  <1> QED BY <1>3, <1>4, <1>5, <1>6, <1>7 DEF FireInv

-----------------------------------------------------------------------------
LEMMA LeaveStep ==
  ASSUME FireInv, NEW t \in Servers, LeaveRunning(t)
  PROVE  FireInv'
  <1>1. PICK l \in {"next", "off"} : pc' = [pc EXCEPT ![t] = l] /\ at' = [at EXCEPT ![t] = NoJob]
    BY DEF LeaveRunning, Done, Goto
  <1>2. pc[t] # "deliver" /\ t \in Threads
    BY DEF LeaveRunning, SessionBusy, Servers, Threads
  <1>3. Serves(t)'
    BY <1>1, <1>2 DEF FireInv, Shape, Serves, Serving
  <1> QED BY <1>1, <1>2, <1>3, RowsStay, Elsewhere DEF LeaveRunning, FireInv, Shape, Labels

LEMMA ReadStep ==
  ASSUME FireInv, NEW t \in Servers, ReadToAdvance(t)
  PROVE  FireInv'
  <1>1. /\ pc[t] = "advance" /\ t \in Threads
        /\ UNCHANGED <<now, job, fire, runs, delivered, lost, due>>
    BY DEF ReadToAdvance, Servers, Threads
  <1>2. at[t] \in Fires /\ at[t][2] \in 0 .. LastTime /\ fire[at[t]].status \in Ended
    BY <1>1, TimesAreTimes DEF FireInv, Serves, Serving, Fires, Servers
  <1>3. CASE Done(t) /\ UNCHANGED row
    <2>1. PICK l \in {"next", "off"} : pc' = [pc EXCEPT ![t] = l] /\ at' = [at EXCEPT ![t] = NoJob]
      BY <1>3 DEF Done, Goto
    <2>2. Serves(t)'
      BY <1>1, <2>1 DEF FireInv, Shape, Serves, Serving
    <2> QED BY <1>1, <1>3, <2>1, <2>2, RowsStay, Elsewhere DEF FireInv, Shape, Labels
  <1>4. CASE ~(Done(t) /\ UNCHANGED row)
    <2>1. PICK r \in Rows : row' = [row EXCEPT ![t] = r] /\ r.last = at[t][2]
      <3>1. \A s \in {"active", "stopped"}, d \in 0 .. LastTime :
               Row(s, d, at[t][2]) \in Rows /\ Row(s, d, at[t][2]).last = at[t][2]
        BY <1>2 DEF Row, Rows
      <3>2. Never \in 0 .. LastTime /\ Times \subseteq 0 .. LastTime
        BY TimesAreTimes DEF Never, Asked
      <3> QED BY <1>4, <3>1, <3>2 DEF ReadToAdvance
    <2>2. pc' = [pc EXCEPT ![t] = "store"] /\ at' = at
      BY <1>4 DEF ReadToAdvance, Goto
    <2>3. /\ row' \in [Threads -> Rows] /\ row'[t] = r
          /\ \A u \in Threads \ {t} : row'[u] = row[u]
      BY <1>1, <2>1 DEF FireInv, Shape
    <2>4. Serves(t)'
      BY <1>1, <1>2, <2>1, <2>2, <2>3 DEF FireInv, Shape, Serves, Serving
    <2>5. at' = [at EXCEPT ![t] = at[t]] /\ at[t] \in (Jobs \X (Times \union {Asked})) \union {NoJob}
      BY <1>1, <2>2 DEF FireInv, Shape
    <2> QED BY <1>1, <2>2, <2>3, <2>4, <2>5, RowsStay, Elsewhere DEF FireInv, Shape, Labels, Serving
  <1> QED BY <1>3, <1>4

LEMMA StoreStep ==
  ASSUME FireInv, NEW t \in Servers, StoreAdvanced(t)
  PROVE  FireInv'
  <1> DEFINE j == at[t][1]
  <1>1. /\ pc[t] = "store" /\ t \in Threads
        /\ job' = [job EXCEPT ![j] = row[t]]
        /\ row' = [row EXCEPT ![t] = NoRow]
        /\ UNCHANGED <<now, fire, runs, delivered, lost, due>>
    BY DEF StoreAdvanced, Servers, Threads
  <1>2. at[t] \in Fires /\ fire[at[t]].status \in Ended /\ row[t].last = at[t][2]
    BY <1>1, TimesAreTimes DEF FireInv, Serves, Serving, Fires, Servers
  <1>3. PICK l \in {"next", "off"} : pc' = [pc EXCEPT ![t] = l] /\ at' = [at EXCEPT ![t] = NoJob]
    BY DEF StoreAdvanced, Done, Goto
  <1>4. /\ job' \in [Jobs -> Rows]
        /\ \A i \in Jobs : job'[i] = IF i = j THEN row[t] ELSE job[i]
    BY <1>1 DEF FireInv, Shape
  <1>5. PassesOnlySettled'
    <2>1. Settled(<<j, at[t][2]>>)
      BY <1>2, PairsOfFires DEF Settled, Ended
    <2>2. \A f \in Fires : Settled(f)' <=> Settled(f)
      BY <1>1 DEF Settled
    <2> QED BY <1>1, <1>2, <1>4, <2>1 DEF FireInv, PassesOnlySettled, Settled
  <1>6. row' \in [Threads -> Rows] /\ \A u \in Threads \ {t} : row'[u] = row[u]
    BY <1>1, TimeAssumption DEF FireInv, Shape, NoRow, Rows, Never
  <1>7. Serves(t)'
    BY <1>1, <1>3 DEF FireInv, Shape, Serves, Serving
  <1> QED BY <1>1, <1>3, <1>4, <1>5, <1>6, <1>7, Elsewhere DEF FireInv, Shape, Labels

LEMMA FireSteps ==
  ASSUME FireInv, NEW t \in Servers, FireStep(t)
  PROVE  FireInv'
  BY CreateStep, DuplicateStep, AcceptStep, FailingStep, SettleStep, DeliverStep, DeliverFailsStep, LeaveStep, ReadStep, StoreStep
     DEF FireStep

-----------------------------------------------------------------------------
LEMMA TickStep ==
  ASSUME FireInv, Tick \/ FireNext
  PROVE  FireInv'
  <1>1. "tick" \in Servers /\ "tick" \in Threads
    BY DEF Servers, Threads
  <1>2. CASE Tick
    <2>1. due' \subseteq Jobs \X Times
      <3>1. PICK L \in Listed : due' = {<<j, job[j].due>> : j \in L}
        BY <1>2 DEF Tick
      <3>2. \A j \in L : j \in Jobs /\ job[j].due \in 1 .. now
        BY DEF Listed, DueJobs
      <3>3. 1 .. now \subseteq Times
        BY TimeAssumption DEF FireInv, Shape, Times
      <3> QED BY <3>1, <3>2, <3>3
    <2>2. /\ pc["tick"] = "off" /\ pc' = [pc EXCEPT !["tick"] = "next"] /\ at' = [at EXCEPT !["tick"] = at["tick"]]
          /\ UNCHANGED <<now, job, fire, runs, delivered, lost, row>>
      BY <1>2, <1>1 DEF Tick, Goto, FireInv, Shape
    <2>3. Serves("tick")'
      BY <1>1, <2>2 DEF FireInv, Shape, Serves, Serving
    <2>4. at["tick"] \in (Jobs \X (Times \union {Asked})) \union {NoJob}
      BY <1>1 DEF FireInv, Shape
    <2> QED BY <1>1, <2>1, <2>2, <2>3, <2>4, RowsStay, Elsewhere DEF FireInv, Shape, Labels
  <1>3. CASE FireNext
    <2>1. pc["tick"] = "next" /\ UNCHANGED <<now, job, fire, runs, delivered, lost, row>>
      BY <1>3 DEF FireNext
    <2>2. CASE due = {}
      <3>1. pc' = [pc EXCEPT !["tick"] = "off"] /\ at' = [at EXCEPT !["tick"] = at["tick"]] /\ due' = due
        BY <1>1, <1>3, <2>2 DEF FireNext, Goto, FireInv, Shape
      <3>2. Serves("tick")'
        BY <1>1, <3>1 DEF FireInv, Shape, Serves, Serving
      <3>3. at["tick"] \in (Jobs \X (Times \union {Asked})) \union {NoJob}
        BY <1>1 DEF FireInv, Shape
      <3> QED BY <1>1, <2>1, <3>1, <3>2, <3>3, RowsStay, Elsewhere DEF FireInv, Shape, Labels
    <2>3. CASE due # {}
      <3>1. PICK f \in due : /\ at' = [at EXCEPT !["tick"] = f] /\ due' = due \ {f}
                             /\ pc' = [pc EXCEPT !["tick"] = "create"]
        BY <1>3, <2>3 DEF FireNext, Goto
      <3>2. f \in Jobs \X Times /\ f \in Jobs \X (Times \union {Asked})
        BY DEF FireInv, Shape
      <3>3. Serves("tick")'
        BY <1>1, <3>1, <3>2 DEF FireInv, Shape, Serves, Serving
      <3> QED BY <1>1, <2>1, <3>1, <3>2, <3>3, RowsStay, Elsewhere DEF FireInv, Shape, Labels, Serving
    <2> QED BY <2>2, <2>3
  <1> QED BY <1>2, <1>3

LEMMA RunNowStep ==
  ASSUME FireInv, NEW j \in AskedNow, RunNow(j)
  PROVE  FireInv'
  <1>1. /\ "now" \in Servers /\ "now" \in Threads /\ pc["now"] = "off"
        /\ at' = [at EXCEPT !["now"] = <<j, Asked>>]
        /\ pc' = [pc EXCEPT !["now"] = "create"]
        /\ UNCHANGED <<now, job, fire, runs, delivered, lost, due, row>>
    BY DEF RunNow, Goto, Servers, Threads
  <1>2. <<j, Asked>> \in Jobs \X {Asked} /\ <<j, Asked>> \in Jobs \X (Times \union {Asked})
    BY AskedAssumption
  <1>3. Serves("now")'
    BY <1>1, <1>2 DEF FireInv, Shape, Serves, Serving
  <1> QED BY <1>1, <1>2, <1>3, RowsStay, Elsewhere DEF FireInv, Shape, Labels, Serving

(* A client's change, and what moves no thread. *)
LEMMA ClientSteps ==
  ASSUME FireInv, NEW l \in {"off", "change"}, NEW a \in (Jobs \X {Asked}) \union {NoJob}, NEW r \in Rows,
         pc' = [pc EXCEPT !["client"] = l], at' = [at EXCEPT !["client"] = a], row' = [row EXCEPT !["client"] = r],
         UNCHANGED <<now, fire, runs, delivered, lost, due>>,
         job' \in [Jobs -> Rows], PassesOnlySettled',
         l = "change" => a \in Jobs \X {Asked} /\ (r.last # Never => Settled(<<a[1], r.last>>))
  PROVE  FireInv'
  <1>1. "client" \in Threads /\ "client" \notin Servers /\ Servers \subseteq Threads
    BY DEF Servers, Threads
  <1>2. \A u \in Servers : pc'[u] = pc[u] /\ at'[u] = at[u] /\ row'[u] = row[u]
    BY <1>1 DEF FireInv, Shape
  <1>3. pc'["client"] = l /\ at'["client"] = a /\ row'["client"] = r
    BY <1>1 DEF FireInv, Shape
  <1>4. Shape'
    BY <1>1 DEF FireInv, Shape, Labels
  <1>5. \A u \in Servers : Serves(u)'
    BY <1>2 DEF FireInv, Serves
  <1>6. Changes'
    BY <1>3 DEF Changes, Settled
  <1>7. Deliveries'
    BY <1>2 DEF FireInv, Deliveries
  <1> QED BY <1>4, <1>5, <1>6, <1>7 DEF FireInv

LEMMA ReadToChangeStep ==
  ASSUME FireInv, NEW j \in Jobs, ReadToChange(j)
  PROVE  FireInv'
  <1>1. job[j] \in Rows
    BY DEF FireInv, Shape
  <1>2. PICK r \in {Row("stopped", Never, job[j].last)} \union Resumed(j) : row' = [row EXCEPT !["client"] = r]
    BY DEF ReadToChange
  <1>3. r \in Rows /\ r.last = job[j].last
    <2>1. \A s \in {"active", "stopped"}, d \in 0 .. LastTime :
             Row(s, d, job[j].last) \in Rows /\ Row(s, d, job[j].last).last = job[j].last
      BY <1>1 DEF Row, Rows
    <2>2. Never \in 0 .. LastTime /\ Times \subseteq 0 .. LastTime /\ RunAt \in 0 .. LastTime
      BY TimesAreTimes, TimeAssumption DEF Never, Asked
    <2> QED BY <2>1, <2>2 DEF Resumed
  <1>4. job[j].last # Never => Settled(<<j, job[j].last>>)
    BY DEF FireInv, PassesOnlySettled
  <1> QED BY <1>2, <1>3, <1>4, RowsStay, ClientSteps DEF ReadToChange, Goto, FireInv, Shape

LEMMA StoreChangedStep ==
  ASSUME FireInv, StoreChanged
  PROVE  FireInv'
  <1> DEFINE j == at["client"][1]
             r == row["client"]
  <1>1. "client" \in Threads /\ pc["client"] = "change" /\ job' = [job EXCEPT ![j] = r]
    BY DEF StoreChanged, Threads
  <1>2. j \in Jobs /\ (r.last # Never => Settled(<<j, r.last>>)) /\ r \in Rows
    BY <1>1 DEF FireInv, Shape, Changes
  <1>3. job' \in [Jobs -> Rows] /\ \A i \in Jobs : job'[i] = IF i = j THEN r ELSE job[i]
    BY <1>1, <1>2 DEF FireInv, Shape
  <1>4. PassesOnlySettled'
    BY <1>2, <1>3 DEF StoreChanged, FireInv, PassesOnlySettled, Settled
  <1>5. NoRow \in Rows
    BY TimeAssumption DEF NoRow, Rows, Never
  <1>6. pc' = [pc EXCEPT !["client"] = "off"] /\ at' = [at EXCEPT !["client"] = NoJob]
    BY DEF StoreChanged, Done, Goto
  <1> QED BY <1>3, <1>4, <1>5, <1>6, ClientSteps DEF StoreChanged

LEMMA AbandonStep ==
  ASSUME FireInv, NEW T \in SUBSET Threads, Abandon(T)
  PROVE  FireInv'
  <1>1. /\ pc' = [t \in Threads |-> IF t \in T THEN "off" ELSE pc[t]]
        /\ row' = [t \in Threads |-> IF t \in T THEN NoRow ELSE row[t]]
        /\ at' = [t \in Threads |-> IF t \in T THEN NoJob ELSE at[t]]
        /\ due' \subseteq due
        /\ lost' = lost \union {at[t] : t \in {q \in T \ {"client"} : pc[q] = "deliver"}}
        /\ UNCHANGED <<now, job, fire, runs, delivered>>
    BY DEF Abandon
  <1>2. Servers \subseteq Threads /\ "client" \in Threads /\ "client" \notin Servers
    BY DEF Servers, Threads
  <1>3. Shape'
    <2>1. NoRow \in Rows
      BY TimeAssumption DEF NoRow, Rows, Never
    <2> QED BY <1>1, <2>1 DEF FireInv, Shape, Labels
  <1>4. \A t \in Servers : Serves(t)'
    BY <1>1, <1>2 DEF FireInv, Serves, Serving
  <1>5. Changes'
    BY <1>1, <1>2 DEF FireInv, Changes, Settled
  <1>6. PassesOnlySettled'
    BY <1>1, RowsStay
  <1>7. Deliveries'
    <2> SUFFICES ASSUME NEW f \in Fires, delivered[f] = 0, fire[f].status = "completed", f \notin lost'
                 PROVE  \E t \in Servers : pc'[t] = "deliver" /\ at'[t] = f
      BY <1>1 DEF FireInv, Deliveries
    <2>1. PICK t \in Servers : pc[t] = "deliver" /\ at[t] = f
      BY <1>1 DEF FireInv, Deliveries
    <2>2. t \notin T
      BY <1>1, <1>2, <2>1
    <2> QED BY <1>1, <1>2, <2>1, <2>2
  <1> QED BY <1>3, <1>4, <1>5, <1>6, <1>7 DEF FireInv

LEMMA NextFires == FireInv /\ [Next]_vars => FireInv'
  <1> SUFFICES ASSUME FireInv, [Next]_vars PROVE FireInv'
    OBVIOUS
  <1>1. ASSUME UNCHANGED <<job, fire, runs, delivered, lost, pc, at, due, row>>, now' \in 0 .. LastTime
        PROVE  FireInv'
    BY <1>1, RowsStay DEF FireInv, Shape, Serves, Changes, Deliveries, Settled
  <1>2. CASE Clock \/ ClientRun \/ RunEnds
    BY <1>1, <1>2, TimeAssumption DEF Clock, ClientRun, RunEnds, FireInv, Shape
  <1>3. CASE Tick \/ FireNext
    BY <1>3, TickStep
  <1>4. ASSUME NEW j \in AskedNow, RunNow(j) PROVE FireInv'
    BY <1>4, RunNowStep
  <1>5. ASSUME NEW j \in Jobs, ReadToChange(j) PROVE FireInv'
    BY <1>5, ReadToChangeStep
  <1>6. ASSUME NEW t \in {"tick", "now"}, FireStep(t) PROVE FireInv'
    BY <1>6, FireSteps DEF Servers
  <1>7. CASE StoreChanged
    BY <1>7, StoreChangedStep
  <1>8. CASE Crash \/ GiveUp
    BY <1>8, AbandonStep DEF Crash, GiveUp, Threads
  <1>9. CASE UNCHANGED vars
    BY <1>1, <1>9 DEF vars, FireInv, Shape
  <1> QED BY <1>2, <1>3, <1>4, <1>5, <1>6, <1>7, <1>8, <1>9 DEF Next

(* The fires, the threads that serve them and the rows that are to be       *)
(* stored agree at every step.                                              *)
THEOREM FiresKept == Spec => []FireInv
  BY InitFires, NextFires, PTL DEF Spec

(* However often a schedule is tried, it starts one run. *)
THEOREM OneRun == Spec => []OneRunPerSchedule
  <1>1. FireInv => OneRunPerSchedule
    BY DEF FireInv, Shape, OneRunPerSchedule
  <1> QED BY <1>1, FiresKept, PTL

(* A job passes a time it was due at only once that is settled. *)
THEOREM NonePassedOver == Spec => []PassesOnlySettled
  <1>1. FireInv => PassesOnlySettled
    BY DEF FireInv
  <1> QED BY <1>1, FiresKept, PTL

(* A run's result is delivered once, and missing only where a thread ended  *)
(* before its deliveries.                                                   *)
THEOREM OneDelivery == Spec => []DeliveredOnce
  <1>1. FireInv => DeliveredOnce
    BY DEF FireInv, Shape, Deliveries, DeliveredOnce, Servers
  <1> QED BY <1>1, FiresKept, PTL
=============================================================================
