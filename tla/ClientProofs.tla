----------------------------- MODULE ClientProofs -----------------------------
(***************************************************************************)
(* The daemon's two clients.  The Telegram bot: what is acknowledged is    *)
(* shown, and nothing is sent twice without a reason.  The terminal: what  *)
(* it shows has every event it must.  Proved for any runs, notices, chats, *)
(* records, buffers, limits and faults.                                    *)
(***************************************************************************)
EXTENDS TelegramDelivery, EventStream, SequenceTheorems, NaturalsInduction, WellFoundedInduction, TLAPS

-----------------------------------------------------------------------------
(* The Telegram bot's deliveries. *)

(* Where the pass stands: what it serves or has listed is pending. *)
Serving ==
    /\ pc \in {"run", "load", "show"} => at \in Runs
    /\ pc = "notice" => at \in Notices
    /\ pc = "ack" => at \in Deliveries
    /\ pc \in {"idle", "next", "down"} => at = 0
    /\ at # 0 => delivery[at] = "pending" /\ at \notin left
    /\ \A d \in left : delivery[d] = "pending"
    /\ pc \in {"run", "load", "show", "notice"} => at \notin receipts

(* An item that was sent more often than it had reason to is known to be    *)
(* sent: it is in the run's render state, in the receipts or acknowledged.  *)
Known(d, i) ==
    /\ pc # "down"
    /\ \/ delivery[d] # "pending"
       \/ d \in Runs /\ mem[d].sent[i].at # 0
       \/ d \in Notices /\ (d \in receipts \/ (at = d /\ pc = "ack"))

Counted ==
    \A d \in Deliveries : \A i \in Items :
        /\ Len(chat[d][i]) <= 1 + again
        /\ Len(chat[d][i]) > again => Known(d, i)

-----------------------------------------------------------------------------
(* A run's replies are whole but for the last, and all once it has ended. *)
Good(s) == s \in {"completed", "failed"}

WholeReplies(r) ==
    /\ Last(r) <= MaxReplies
    /\ \A i \in 1 .. Last(r) : i < Last(r) \/ Good(status[r]) => reply[r][i] = Whole

(* The view of a run is no older than it must be: what the cursor has       *)
(* passed is whole, and a reply viewed whole is.                            *)
ViewHolds(r) ==
    /\ mem[r].cursor <= Last(r)
    /\ \A i \in Replies :
          /\ i <= mem[r].cursor => mem[r].view[i] = Whole
          /\ mem[r].view[i] = Whole => i <= Last(r) /\ reply[r][i] = Whole

(* What is remembered or saved of a reply is its newest message, and one    *)
(* remembered as whole is shown so.                                         *)
Remembered(r, i, s) ==
    /\ s.text # 0 => s.at # 0
    /\ s.at # 0 => s.at = Len(chat[r][i])
    /\ s.text = Whole => /\ i <= Last(r) /\ reply[r][i] = Whole
                         /\ chat[r][i][s.at] = Whole
                         /\ pc = "show" /\ at = r => mem[r].view[i] = Whole

MemoryHolds(r) ==
    \A i \in Replies :
        /\ Remembered(r, i, mem[r].sent[i])
        /\ Remembered(r, i, file[r][i])
        /\ file[r][i].at # 0 /\ delivery[r] = "pending" /\ pc # "down"
              => mem[r].sent[i].at = file[r][i].at

(* A run whose delivery is done, or about to be, has ended and is shown. *)
Finished(r) == status[r] \in Ended /\ (Good(status[r]) => ShowsReplies(r))

DoneIsShown(r) ==
    /\ delivery[r] = "sent" \/ r \in receipts \/ (pc = "ack" /\ at = r) => Finished(r)
    /\ pc \in {"load", "show"} /\ at = r /\ seen \in Ended => status[r] = seen
    /\ pc = "show" /\ at = r /\ Good(seen) => \A i \in 1 .. Last(r) : mem[r].view[i] = Whole

ShownInv ==
    TypeOK /\ Serving /\ \A r \in Runs : WholeReplies(r) /\ ViewHolds(r) /\ MemoryHolds(r) /\ DoneIsShown(r)

-----------------------------------------------------------------------------
LEMMA AppendText ==
    ASSUME NEW s \in Seq(Texts), NEW t \in Texts
    PROVE  /\ Append(s, t) \in Seq(Texts)
           /\ Len(Append(s, t)) = Len(s) + 1
           /\ Append(s, t)[Len(s) + 1] = t
BY AppendProperties

LEMMA EditText ==
    ASSUME NEW s \in Seq(Texts), NEW t \in Texts, NEW k \in Nat
    PROVE  /\ [s EXCEPT ![k] = t] \in Seq(Texts)
           /\ Len([s EXCEPT ![k] = t]) = Len(s)
           /\ k \in 1 .. Len(s) => [s EXCEPT ![k] = t][k] = t
<1>1. CASE k \in 1 .. Len(s)
  BY <1>1, ExceptSeq
<1>2. CASE k \notin 1 .. Len(s)
  <2>1. DOMAIN s = 1 .. Len(s) /\ s = [x \in DOMAIN s |-> s[x]]
    OBVIOUS
  <2>2. [s EXCEPT ![k] = t] = s
    BY <2>1, <1>2
  <2> QED BY <2>2, <1>2
<1> QED BY <1>1, <1>2

LEMMA ConstantText ==
    ASSUME NEW n \in Nat, NEW t \in Texts
    PROVE  /\ [i \in 1 .. n |-> t] \in Seq(Texts)
           /\ Len([i \in 1 .. n |-> t]) = n
<1> DEFINE f == [i \in 1 .. n |-> t]
<1>1. f \in [1 .. n -> Texts]
  OBVIOUS
<1>2. f \in Seq(Texts)
  BY <1>1
<1> QED BY <1>1, <1>2

LEMMA SealedText ==
    ASSUME TypeOK, NEW r \in Runs
    PROVE  /\ Sealed(r) \in Seq(Texts)
           /\ Len(Sealed(r)) = Last(r)
           /\ \A i \in 1 .. Last(r) : Sealed(r)[i] = Whole
<1>1. Last(r) \in Nat
  BY DEF TypeOK, Last
<1>2. Whole \in Texts
  BY DEF Texts
<1> DEFINE f == [i \in 1 .. Last(r) |-> Whole]
<1>3. Sealed(r) = f
  BY DEF Sealed
<1>4. f \in Seq(Texts) /\ Len(f) = Last(r)
  BY <1>1, <1>2, ConstantText
<1>5. \A i \in 1 .. Last(r) : f[i] = Whole
  OBVIOUS
<1> QED BY <1>3, <1>4, <1>5

LEMMA ItemsKnown == Replies \subseteq Items /\ Ask \in Items /\ End \in Items /\ Notice \in Items
BY DEF Items

LEMMA FreshMem == Fresh \in Mems /\ \A i \in Items : Fresh.sent[i] = Unsent
BY ItemsKnown DEF Fresh, Mems, Unsent, Sends, Texts

LEMMA FreshView == Fresh.cursor = 0 /\ \A i \in Replies : Fresh.view[i] = 0
BY Zenon DEF Fresh

LEMMA WantedText ==
    ASSUME TypeOK, at \in Runs, NEW i \in ToShow
    PROVE  /\ i \in Items /\ Wanted(i) \in Texts
           /\ mem[at].sent[i].text # Wanted(i)
           /\ i \in Replies => mem[at].view[i] = Wanted(i)
<1>1. mem[at].view \in [Replies -> {0} \union Texts]
  BY DEF TypeOK, Mems
<1>2. i \in Viewed \union {Ask, End}
  BY DEF ToShow, Preview, Missing, Due, Newest, Requests
<1>3. i \in Items
  BY <1>2, ItemsKnown DEF Viewed
<1>4. Wanted(i) \in Texts
  <2>1. CASE i \in Replies
    <3>1. i # Ask /\ i # End
      BY <2>1, BoundAssumption DEF Ask, End, Replies
    <3>2. mem[at].view[i] # 0
      BY <1>2, <3>1 DEF Viewed
    <3> QED BY <1>1, <2>1, <3>2 DEF Wanted
  <2>2. CASE i \notin Replies
    BY <2>2 DEF Wanted, Texts
  <2> QED BY <2>1, <2>2
<1>5. mem[at].sent[i].text # Wanted(i)
  BY DEF ToShow, Missing
<1> QED BY <1>3, <1>4, <1>5 DEF Wanted
-----------------------------------------------------------------------------
(* What the pass serves is pending, and every variable keeps its type. *)
Base == TypeOK /\ Serving

LEMMA BaseInit == Init => Base
<1> SUFFICES ASSUME Init PROVE Base
  OBVIOUS
<1>1. TypeOK
  BY FreshMem DEF Init, TypeOK, Mems
<1> QED BY <1>1 DEF Init, Base, Serving, Deliveries

(* The parts of the type the pass shares, under the names its steps use. *)
LEMMA ShownText ==
    ASSUME TypeOK, at \in Deliveries, NEW i \in Items, NEW k \in Nat, NEW text \in Texts
    PROVE  Shown(i, k, text) \in [Deliveries -> [Items -> Seq(Texts)]]
<1>1. chat[at][i] \in Seq(Texts)
  BY DEF TypeOK
<1>2. Append(chat[at][i], text) \in Seq(Texts) /\ [chat[at][i] EXCEPT ![k] = text] \in Seq(Texts)
  BY <1>1, AppendText, EditText
<1> QED BY <1>2 DEF TypeOK, Shown

LEMMA RetryKeeps ==
    ASSUME Base, at \in Deliveries, Retry
    PROVE  waiting' \subseteq Chats /\ pc' = "next" /\ at' = 0 /\ seen' = "none"
BY ChatsAssumption DEF Base, TypeOK, Retry, Leave, ChatOf

LEMMA LeftStaysPending ==
    ASSUME Base, at \in Deliveries, left' = left, NEW s \in {"sent", "failed"},
           delivery' = [delivery EXCEPT ![at] = s]
    PROVE  /\ delivery' \in [Deliveries -> {"pending", "sent", "failed"}]
           /\ \A d \in left' : delivery'[d] = "pending"
<1>1. at \notin left /\ left \subseteq Deliveries
  BY DeliveriesAssumption DEF Base, TypeOK, Serving
<1> QED BY <1>1 DEF Base, TypeOK, Serving

LEMMA BaseStep == Base /\ [Next]_vars => Base'
<1> SUFFICES ASSUME Base, [Next]_vars PROVE Base'
  OBVIOUS
<1> USE DEF Base
<1>0. Runs \subseteq Deliveries /\ Notices \subseteq Deliveries /\ 0 \notin Deliveries /\ Runs \intersect Notices = {}
  BY DeliveriesAssumption DEF Deliveries
<1>1. CASE UNCHANGED vars
  BY <1>1 DEF vars, core, bot, count, TypeOK, Serving
<1>2. ASSUME NEW r \in Runs, Generate(r) PROVE Base'
  <2>1. reply' \in [Runs -> Seq(Texts)]
    <3>1. Sealed(r) \in Seq(Texts) /\ Append(reply[r], Part) \in Seq(Texts)
      BY SealedText, AppendText DEF TypeOK, Texts
    <3> QED BY <3>1, <1>2 DEF Generate, TypeOK
  <2> QED BY <2>1, <1>2 DEF Generate, bot, count, TypeOK, Serving
<1>3. ASSUME NEW r \in Runs, AskApproval(r) PROVE Base'
  BY <1>3 DEF AskApproval, bot, count, TypeOK, Serving
<1>4. ASSUME NEW r \in Runs, Decide(r) PROVE Base'
  BY <1>4 DEF Decide, bot, count, TypeOK, Serving
<1>5. ASSUME NEW r \in Runs, EndRun(r) PROVE Base'
  BY <1>5, SealedText DEF EndRun, bot, count, TypeOK, Serving, Ended
<1>6. ASSUME NEW r \in Runs, CancelRun(r) PROVE Base'
  BY <1>6 DEF CancelRun, bot, count, TypeOK, Serving, Ended
<1>7. ASSUME NEW r \in Runs, SealCanceled(r) PROVE Base'
  BY <1>7, SealedText DEF SealCanceled, bot, count, TypeOK, Serving
<1>8. ASSUME NEW D, DeliverPending(D) PROVE Base'
  <2>1. left' \subseteq Pending
    BY <1>8 DEF DeliverPending, Oldest
  <2> QED BY <2>1, <1>8 DEF DeliverPending, Pending, core, count, TypeOK, Serving
<1>9. CASE NextDelivery
  <2>1. PICK d \in First(left) :
           /\ left' = left \ {d}
           /\ IF ChatOf(d) \in waiting THEN Skip ELSE Take(d)
    BY <1>9 DEF NextDelivery
  <2>2. d \in left /\ d \in Deliveries
    BY <2>1 DEF First, TypeOK
  <2>3. CASE Skip
    BY <1>9, <2>1, <2>2, <2>3 DEF NextDelivery, Skip, core, count, TypeOK, Serving
  <2>4. CASE Take(d)
    <3>1. Task(d) \in {"ack", "notice", "run"} /\ Task(d) # "next" /\ at' = d /\ pc' = Task(d)
      BY <2>4 DEF Take, Task
    <3>2. /\ Task(d) = "run" => d \in Runs /\ d \notin receipts
          /\ Task(d) = "notice" => d \in Notices /\ d \notin receipts
      BY <2>2, <1>0 DEF Task, Deliveries
    <3>3. at' \in Deliveries /\ at' \notin left' /\ delivery[at'] = "pending"
      BY <2>1, <2>2, <3>1 DEF Serving
    <3>4. UNCHANGED <<core, delivery, chat, seen, mem, receipts, waiting, file, count>>
      BY <1>9 DEF NextDelivery
    <3>5. TypeOK'
      BY <2>1, <3>1, <3>3, <3>4 DEF core, count, TypeOK
    <3> QED BY <2>1, <3>1, <3>2, <3>3, <3>4, <3>5 DEF Serving
  <2> QED BY <2>1, <2>3, <2>4
<1>10. CASE EndPass
  <2>1. Saved \in [Runs -> [Items -> Sends]]
    BY DEF Saved, TypeOK, Mems
  <2> QED BY <2>1, <1>10 DEF EndPass, core, count, TypeOK, Serving
<1>11. ASSUME NEW c \in Chats, Deadline(c) PROVE Base'
  BY <1>11 DEF Deadline, core, count, TypeOK, Serving
<1>12. CASE GetRun
  <2>1. at \in Runs /\ at \in Deliveries
    BY <1>12, <1>0 DEF GetRun, Serving
  <2>2. CASE seen' = status[at] /\ pc' = "load" /\ UNCHANGED <<at, waiting, errors>>
    BY <1>12, <2>1, <2>2 DEF GetRun, core, TypeOK, Serving
  <2>3. CASE Fails /\ Retry
    BY <1>12, <2>1, <2>3, RetryKeeps DEF GetRun, core, Fails, TypeOK, Serving
  <2> QED BY <1>12, <2>2, <2>3 DEF GetRun
<1>13. CASE RunMessages
  <2>1. at \in Runs /\ at \in Deliveries
    BY <1>13, <1>0 DEF RunMessages, Serving
  <2>2. Loaded(at) \in Mems
    <3>1. mem[at] \in Mems /\ Last(at) \in Nat /\ reply[at] \in Seq(Texts)
      BY <2>1 DEF TypeOK, Last
    <3>2. Settled(Last(at)) \in Nat
      BY <3>1 DEF Settled
    <3>3. \A i \in From(at) + 1 .. Last(at) : i \in 1 .. Last(at)
      BY <3>1, LimitAssumption DEF From, Mems
    <3>4. \A i \in From(at) + 1 .. Last(at) : reply[at][i] \in Texts
      BY <3>1, <3>3 DEF Last
    <3> QED BY <3>1, <3>2, <3>4 DEF Loaded, Mems
  <2>3. CASE mem' = [mem EXCEPT ![at] = Loaded(at)] /\ GoTo("show") /\ UNCHANGED <<waiting, errors>>
    BY <1>13, <2>1, <2>2, <2>3 DEF RunMessages, GoTo, core, TypeOK, Serving
  <2>4. CASE Fails /\ Retry /\ UNCHANGED mem
    BY <1>13, <2>1, <2>4, RetryKeeps DEF RunMessages, core, Fails, TypeOK, Serving
  <2> QED BY <1>13, <2>3, <2>4 DEF RunMessages
<1>14. CASE Show
  <2>1. at \in Runs /\ at \in Deliveries
    BY <1>14, <1>0 DEF Show, Serving
  <2>2. UNCHANGED <<core, left, receipts, file>>
    BY <1>14 DEF Show
  <2>3. ASSUME NEW i \in First(ToShow), Send(i), UNCHANGED <<delivery, errors>> PROVE Base'
    <3>1. i \in ToShow /\ i \in Items /\ Wanted(i) \in Texts
      BY <2>1, WantedText DEF First
    <3> DEFINE k == mem[at].sent[i].at
    <3>2. k \in Nat /\ mem[at] \in Mems /\ Len(chat[at][i]) + 1 \in Nat
      BY <2>1, <3>1 DEF TypeOK, Mems, Sends
    <3>3. chat' \in [Deliveries -> [Items -> Seq(Texts)]]
      BY <2>1, <2>3, <3>1, <3>2, ShownText DEF Send
    <3>4. CASE mem' = mem /\ again' = again + 1 /\ Retry
      BY <2>1, <2>2, <2>3, <3>3, <3>4, RetryKeeps DEF core, TypeOK, Serving
    <3>5. CASE /\ mem' = [mem EXCEPT ![at].sent[i] = [at |-> IF k = 0 THEN Len(chat[at][i]) + 1 ELSE k, text |-> Wanted(i)]]
               /\ GoTo("show") /\ UNCHANGED <<waiting, again>>
      <4>1. [at |-> IF k = 0 THEN Len(chat[at][i]) + 1 ELSE k, text |-> Wanted(i)] \in Sends
        BY <3>1, <3>2 DEF Sends
      <4>2. mem' \in [Runs -> Mems]
        BY <2>1, <3>1, <3>2, <3>5, <4>1 DEF TypeOK, Mems
      <4> QED BY <1>14, <2>1, <2>2, <2>3, <3>3, <3>5, <4>2 DEF Show, GoTo, core, TypeOK, Serving
    <3> QED BY <2>3, <3>4, <3>5 DEF Send, Doubt
  <2>4. CASE (Refuses \/ Fails) /\ Retry /\ UNCHANGED <<delivery, chat, mem, again>>
    BY <2>1, <2>2, <2>4, RetryKeeps DEF core, Refuses, Fails, TypeOK, Serving
  <2>5. CASE Fails /\ ~Preview /\ Leave /\ delivery' = [delivery EXCEPT ![at] = "failed"]
             /\ UNCHANGED <<chat, mem, waiting, again>>
    <3>1. /\ delivery' \in [Deliveries -> {"pending", "sent", "failed"}]
          /\ \A d \in left' : delivery'[d] = "pending"
      BY <2>1, <2>2, <2>5, LeftStaysPending
    <3> QED BY <2>2, <2>5, <3>1 DEF core, Leave, Fails, TypeOK, Serving
  <2> QED BY <1>14, <2>3, <2>4, <2>5 DEF Show
<1>15. CASE AllShown
  <2>1. at \in Runs /\ at \in Deliveries
    BY <1>15, <1>0 DEF AllShown, Serving
  <2> QED BY <1>15, <2>1 DEF AllShown, GoTo, Leave, core, count, TypeOK, Serving
<1>16. CASE SendNotice
  <2>1. at \in Notices /\ at \in Deliveries
    BY <1>16, <1>0 DEF SendNotice, Serving
  <2>2. UNCHANGED <<core, left, mem, receipts, file>>
    BY <1>16 DEF SendNotice
  <2>3. Shown(Notice, 0, Whole) \in [Deliveries -> [Items -> Seq(Texts)]]
    BY <2>1, ShownText, ItemsKnown DEF Texts
  <2>4. CASE /\ chat' = Shown(Notice, 0, Whole)
             /\ (GoTo("ack") /\ UNCHANGED <<waiting, again>>) \/ (Doubt /\ Retry)
             /\ UNCHANGED <<delivery, errors>>
    <3>1. CASE GoTo("ack") /\ UNCHANGED <<waiting, again>>
      BY <1>16, <2>1, <2>2, <2>3, <2>4, <3>1 DEF SendNotice, GoTo, core, TypeOK, Serving
    <3>2. CASE Doubt /\ Retry
      BY <2>1, <2>2, <2>3, <2>4, <3>2, RetryKeeps DEF Doubt, core, TypeOK, Serving
    <3> QED BY <2>4, <3>1, <3>2
  <2>5. CASE (Refuses \/ Fails) /\ Retry /\ UNCHANGED <<delivery, chat, again>>
    BY <2>1, <2>2, <2>5, RetryKeeps DEF core, Refuses, Fails, TypeOK, Serving
  <2>6. CASE Fails /\ Leave /\ delivery' = [delivery EXCEPT ![at] = "failed"] /\ UNCHANGED <<chat, waiting, again>>
    <3>1. /\ delivery' \in [Deliveries -> {"pending", "sent", "failed"}]
          /\ \A d \in left' : delivery'[d] = "pending"
      BY <2>1, <2>2, <2>6, LeftStaysPending
    <3> QED BY <2>2, <2>6, <3>1 DEF core, Leave, Fails, TypeOK, Serving
  <2> QED BY <1>16, <2>4, <2>5, <2>6 DEF SendNotice
<1>17. CASE Acknowledge
  <2>1. at \in Deliveries
    BY <1>17 DEF Acknowledge, Serving
  <2>2. UNCHANGED <<core, chat, left, file, again>>
    BY <1>17 DEF Acknowledge
  <2>3. CASE Answered
    <3>1. mem' \in [Runs -> Mems]
      BY <2>3, FreshMem DEF Answered, TypeOK
    <3>2. /\ delivery' \in [Deliveries -> {"pending", "sent", "failed"}]
          /\ \A d \in left' : delivery'[d] = "pending"
      BY <2>1, <2>2, <2>3, LeftStaysPending DEF Answered, Sent
    <3> QED BY <2>2, <2>3, <3>1, <3>2 DEF Answered, Leave, core, TypeOK, Serving
  <2>4. CASE Fails /\ Retry /\ delivery' \in {delivery, Sent(at)} /\ receipts' = receipts \union {at} /\ UNCHANGED mem
    <3>1. /\ delivery' \in [Deliveries -> {"pending", "sent", "failed"}]
          /\ \A d \in left' : delivery'[d] = "pending"
      <4>1. CASE delivery' = delivery
        BY <2>2, <4>1 DEF TypeOK, Serving
      <4>2. CASE delivery' = [delivery EXCEPT ![at] = "sent"]
        BY <2>1, <2>2, <4>2, LeftStaysPending
      <4> QED BY <2>4, <4>1, <4>2 DEF Sent
    <3> QED BY <2>1, <2>2, <2>4, <3>1, RetryKeeps DEF Fails, core, TypeOK, Serving
  <2> QED BY <1>17, <2>3, <2>4 DEF Acknowledge
<1>18. CASE Stop
  <2>1. Saved \in [Runs -> [Items -> Sends]]
    BY DEF Saved, TypeOK, Mems
  <2>2. [r \in Runs |-> Fresh] \in [Runs -> Mems]
    BY FreshMem
  <2> QED BY <1>18, <2>1, <2>2 DEF Stop, Doubt, core, TypeOK, Serving
<1>19. CASE Start
  <2>1. \A r \in Runs : [Fresh EXCEPT !.sent = file[r]] \in Mems
    BY FreshMem DEF TypeOK, Mems
  <2> QED BY <1>19, <2>1 DEF Start, core, count, TypeOK, Serving
<1> QED
  BY <1>1, <1>2, <1>3, <1>4, <1>5, <1>6, <1>7, <1>8, <1>9, <1>10, <1>11, <1>12, <1>13, <1>14,
     <1>15, <1>16, <1>17, <1>18, <1>19 DEF Next, Pass, Poll, DeliverPendingRun
-----------------------------------------------------------------------------
LEMMA CountedInit == Init => Counted
BY DEF Init, Counted

(* A step that sends nothing and forgets nothing of what was sent. *)
LEMMA NothingSent ==
    ASSUME Counted, chat' = chat, again' = again,
           \A d \in Deliveries, i \in Items : Known(d, i) => Known(d, i)'
    PROVE  Counted'
BY DEF Counted

(* A call left open or a restart is a reason to send anything once more. *)
LEMMA OneMoreReason ==
    ASSUME Base, Base', Counted, again' = again + 1,
           \A d \in Deliveries, i \in Items :
              \/ Len(chat'[d][i]) = Len(chat[d][i])
              \/ Len(chat[d][i]) <= again /\ Len(chat'[d][i]) = Len(chat[d][i]) + 1
    PROVE  Counted'
<1> SUFFICES ASSUME NEW d \in Deliveries, NEW i \in Items PROVE Len(chat'[d][i]) <= again'
  <2>1. \A d \in Deliveries, i \in Items : Len(chat'[d][i]) \in Nat /\ again' \in Nat
    BY DEF Base, TypeOK
  <2> QED BY <2>1 DEF Counted
<1>1. again \in Nat /\ Len(chat[d][i]) \in Nat /\ Len(chat[d][i]) <= 1 + again
  BY DEF Base, TypeOK, Counted
<1> QED BY <1>1

(* What sending an item, or editing it, does to the lengths. *)
LEMMA ShownLength ==
    ASSUME TypeOK, at \in Deliveries, NEW i \in Items, NEW k \in Nat, NEW text \in Texts
    PROVE  /\ Len(Shown(i, k, text)[at][i]) = IF k = 0 THEN Len(chat[at][i]) + 1 ELSE Len(chat[at][i])
           /\ \A d \in Deliveries, j \in Items : d # at \/ j # i => Shown(i, k, text)[d][j] = chat[d][j]
<1>1. chat[at][i] \in Seq(Texts) /\ chat \in [Deliveries -> [Items -> Seq(Texts)]]
  BY DEF TypeOK
<1>2. /\ Len(Append(chat[at][i], text)) = Len(chat[at][i]) + 1
      /\ Len([chat[at][i] EXCEPT ![k] = text]) = Len(chat[at][i])
  BY <1>1, AppendText, EditText
<1> QED BY <1>1, <1>2 DEF Shown

LEMMA CountedStep == Base /\ Base' /\ Counted /\ [Next]_vars => Counted'
<1> SUFFICES ASSUME Base, Base', Counted, [Next]_vars PROVE Counted'
  OBVIOUS
<1>0. Runs \subseteq Deliveries /\ Notices \subseteq Deliveries /\ 0 \notin Deliveries /\ Runs \intersect Notices = {}
  BY DeliveriesAssumption DEF Deliveries
<1>a. /\ pc \in {"idle", "next", "down"} => at = 0
      /\ pc \in {"run", "load", "show"} => at \in Runs /\ at \in Deliveries
      /\ pc = "notice" => at \in Notices /\ at \in Deliveries
      /\ pc = "ack" => at \in Deliveries
      /\ at # 0 => delivery[at] = "pending"
      /\ pc \in {"run", "load", "show", "notice"} => at \notin receipts
  BY <1>0 DEF Base, Serving
<1>b. ASSUME UNCHANGED <<delivery, chat, bot, again>> PROVE Counted'
  BY <1>b, NothingSent DEF bot, Known
<1>1. CASE UNCHANGED vars
  BY <1>1, <1>b DEF vars, count
<1>2. ASSUME NEW r \in Runs,
             Generate(r) \/ AskApproval(r) \/ Decide(r) \/ EndRun(r) \/ CancelRun(r) \/ SealCanceled(r)
      PROVE  Counted'
  BY <1>2, <1>b DEF Generate, AskApproval, Decide, EndRun, CancelRun, SealCanceled, count
<1>3. ASSUME NEW D, DeliverPending(D) PROVE Counted'
  BY <1>3, NothingSent DEF DeliverPending, Known, count
<1>4. CASE NextDelivery
  <2>1. pc = "next" /\ pc' # "down" /\ UNCHANGED <<delivery, chat, mem, receipts, again>>
    BY <1>4 DEF NextDelivery, Take, Skip, Task, count
  <2> QED BY <2>1, NothingSent DEF Known
<1>5. CASE EndPass
  BY <1>5, NothingSent DEF EndPass, Known, count
<1>6. ASSUME NEW c \in Chats, Deadline(c) PROVE Counted'
  BY <1>6, NothingSent DEF Deadline, Known, count
<1>7. CASE GetRun
  BY <1>7, NothingSent DEF GetRun, Retry, Leave, Known
<1>8. CASE RunMessages
  <2>1. pc = "load" /\ at \in Runs /\ pc' # "down" /\ UNCHANGED <<delivery, chat, receipts, again>>
    BY <1>8, <1>a DEF RunMessages, GoTo, Retry, Leave
  <2>2. Loaded(at).sent = mem[at].sent
    BY <2>1 DEF Loaded, Base, TypeOK, Mems
  <2>3. mem' = mem \/ mem' = [mem EXCEPT ![at] = Loaded(at)]
    BY <1>8 DEF RunMessages
  <2>4. \A d \in Runs : mem'[d].sent = mem[d].sent
    BY <2>1, <2>2, <2>3 DEF Base, TypeOK
  <2> QED BY <2>1, <2>4, NothingSent DEF Known
<1>9. CASE Show
  <2>1. pc = "show" /\ at \in Runs /\ at \in Deliveries /\ delivery[at] = "pending" /\ receipts' = receipts
    BY <1>9, <1>a, <1>0 DEF Show
  <2>2. ASSUME NEW i \in First(ToShow), Send(i), UNCHANGED <<delivery, errors>> PROVE Counted'
    <3>1. i \in Items /\ Wanted(i) \in Texts
      BY <2>1, WantedText DEF First, Base
    <3> DEFINE k == mem[at].sent[i].at
    <3>2. k \in Nat /\ Len(chat[at][i]) \in Nat
      BY <2>1, <3>1 DEF Base, TypeOK, Mems, Sends
    <3>3. k = 0 => Len(chat[at][i]) <= again
      BY <2>1, <3>1, <3>2, <1>0 DEF Counted, Known, Base, TypeOK
    <3>4. /\ Len(chat'[at][i]) = IF k = 0 THEN Len(chat[at][i]) + 1 ELSE Len(chat[at][i])
          /\ \A d \in Deliveries, j \in Items : d # at \/ j # i => chat'[d][j] = chat[d][j]
      BY <2>1, <2>2, <3>1, <3>2, ShownLength DEF Send, Base
    <3>5. CASE Doubt
      BY <3>2, <3>3, <3>4, <3>5, OneMoreReason DEF Doubt
    <3>6. CASE /\ mem' = [mem EXCEPT ![at].sent[i] = [at |-> IF k = 0 THEN Len(chat[at][i]) + 1 ELSE k, text |-> Wanted(i)]]
               /\ GoTo("show") /\ UNCHANGED <<waiting, again>>
      <4>1. /\ mem'[at].sent[i].at # 0
            /\ \A d \in Runs, j \in Items : d # at \/ j # i => mem'[d].sent[j] = mem[d].sent[j]
        BY <2>1, <3>1, <3>2, <3>6 DEF Base, TypeOK, Mems
      <4>2. \A d \in Deliveries, j \in Items : d # at \/ j # i => (Known(d, j) => Known(d, j)')
        BY <2>1, <2>2, <3>6, <4>1, <1>0 DEF Known, GoTo
      <4>3. (\A d \in Deliveries : d = at => Known(d, i)') /\ Len(chat'[at][i]) <= 1 + again
        BY <2>1, <3>1, <3>2, <3>3, <3>4, <3>6, <4>1 DEF Known, GoTo, Counted, Base, TypeOK
      <4>4. again' = again
        BY <3>6
      <4>5. ASSUME NEW d \in Deliveries, NEW j \in Items
            PROVE  /\ Len(chat'[d][j]) <= 1 + again'
                   /\ Len(chat'[d][j]) > again' => Known(d, j)'
        <5>1. CASE d = at /\ j = i
          BY <5>1, <4>3, <4>4
        <5>2. CASE d # at \/ j # i
          BY <5>2, <3>4, <4>2, <4>4 DEF Counted
        <5> QED BY <5>1, <5>2
      <4> QED BY <4>5 DEF Counted
    <3> QED BY <2>2, <3>5, <3>6 DEF Send
  <2>3. CASE Retry /\ UNCHANGED <<delivery, chat, mem, again>>
    BY <2>1, <2>3, NothingSent DEF Retry, Leave, Known
  <2>4. CASE Leave /\ delivery' = [delivery EXCEPT ![at] = "failed"] /\ UNCHANGED <<chat, mem, waiting, again>>
    BY <2>1, <2>4, NothingSent DEF Leave, Known, Base, TypeOK
  <2> QED BY <1>9, <2>2, <2>3, <2>4 DEF Show
<1>10. CASE AllShown
  BY <1>10, <1>a, <1>0, NothingSent DEF AllShown, GoTo, Leave, Known, count
<1>11. CASE SendNotice
  <2>1. pc = "notice" /\ at \in Notices /\ at \in Deliveries /\ delivery[at] = "pending" /\ at \notin receipts /\ at \notin Runs
    BY <1>11, <1>a, <1>0 DEF SendNotice
  <2>2. UNCHANGED <<mem, receipts>>
    BY <1>11 DEF SendNotice
  <2>3. CASE chat' = Shown(Notice, 0, Whole) /\ UNCHANGED <<delivery, errors>>
             /\ ((GoTo("ack") /\ UNCHANGED <<waiting, again>>) \/ (Doubt /\ Retry))
    <3>1. Len(chat[at][Notice]) \in Nat /\ again \in Nat
      BY <2>1, ItemsKnown DEF Base, TypeOK
    <3>2. Len(chat[at][Notice]) <= again
      BY <2>1, <3>1, ItemsKnown DEF Counted, Known
    <3>3. /\ Len(chat'[at][Notice]) = Len(chat[at][Notice]) + 1
          /\ \A d \in Deliveries, j \in Items : d # at \/ j # Notice => chat'[d][j] = chat[d][j]
      <4>1. Notice \in Items /\ Whole \in Texts /\ 0 \in Nat
        BY ItemsKnown DEF Texts
      <4>2. /\ Len(Shown(Notice, 0, Whole)[at][Notice]) = Len(chat[at][Notice]) + 1
            /\ \A d \in Deliveries, j \in Items : d # at \/ j # Notice => Shown(Notice, 0, Whole)[d][j] = chat[d][j]
        BY <2>1, <4>1, ShownLength DEF Base
      <4> QED BY <2>3, <4>2
    <3>4. CASE Doubt
      BY <3>2, <3>3, <3>4, OneMoreReason DEF Doubt
    <3>5. CASE GoTo("ack") /\ UNCHANGED <<waiting, again>>
      <4>1. \A d \in Deliveries, j \in Items : d # at => (Known(d, j) => Known(d, j)')
        BY <2>1, <2>2, <2>3, <3>5 DEF Known, GoTo
      <4>2. \A d \in Deliveries, j \in Items : d = at => Known(d, j)'
        BY <2>1, <3>5 DEF Known, GoTo
      <4>3. again' = again /\ chat \in [Deliveries -> [Items -> Seq(Texts)]]
        BY <3>5 DEF Base, TypeOK
      <4>4. ASSUME NEW d \in Deliveries, NEW j \in Items
            PROVE  /\ Len(chat'[d][j]) <= 1 + again'
                   /\ Len(chat'[d][j]) > again' => Known(d, j)'
        <5>1. CASE d = at /\ j = Notice
          BY <5>1, <3>1, <3>2, <3>3, <4>2, <4>3
        <5>2. CASE d = at /\ j # Notice
          BY <5>2, <3>3, <4>2, <4>3 DEF Counted
        <5>3. CASE d # at
          BY <5>3, <3>3, <4>1, <4>3 DEF Counted
        <5> QED BY <5>1, <5>2, <5>3
      <4> QED BY <4>4 DEF Counted
    <3> QED BY <2>3, <3>4, <3>5
  <2>4. CASE Retry /\ UNCHANGED <<delivery, chat, again>>
    BY <2>1, <2>2, <2>4, NothingSent DEF Retry, Leave, Known
  <2>5. CASE Leave /\ delivery' = [delivery EXCEPT ![at] = "failed"] /\ UNCHANGED <<chat, waiting, again>>
    BY <2>1, <2>2, <2>5, NothingSent DEF Leave, Known, Base, TypeOK
  <2> QED BY <1>11, <2>3, <2>4, <2>5 DEF SendNotice
<1>12. CASE Acknowledge
  <2>1. pc = "ack" /\ at \in Deliveries /\ delivery \in [Deliveries -> {"pending", "sent", "failed"}]
    BY <1>12, <1>a DEF Acknowledge, Base, TypeOK
  <2>2. UNCHANGED <<chat, again>> /\ pc' = "next"
    BY <1>12 DEF Acknowledge, Answered, Retry, Leave
  <2>3. CASE Answered
    <3>1. /\ delivery'[at] = "sent" /\ \A d \in Deliveries : d # at => delivery'[d] = delivery[d]
          /\ \A d \in Deliveries : d # at => (d \in receipts' <=> d \in receipts)
          /\ \A d \in Runs : d # at => mem'[d] = mem[d]
      BY <2>1, <2>3 DEF Answered, Sent
    <3> QED BY <2>1, <2>2, <3>1, NothingSent DEF Known
  <2>4. CASE delivery' \in {delivery, Sent(at)} /\ receipts' = receipts \union {at} /\ UNCHANGED mem
    <3>1. \A d \in Deliveries : delivery'[d] = delivery[d] \/ delivery'[d] # "pending"
      BY <2>1, <2>4 DEF Sent
    <3> QED BY <2>1, <2>2, <2>4, <3>1, NothingSent DEF Known
  <2> QED BY <1>12, <2>3, <2>4 DEF Acknowledge
<1>13. CASE Stop
  BY <1>13, OneMoreReason DEF Stop, Doubt
<1>14. CASE Start
  <2>1. \A d \in Deliveries, i \in Items : ~Known(d, i)
    BY <1>14 DEF Start, Known
  <2> QED BY <1>14, <2>1, NothingSent DEF Start, count
<1> QED
  BY <1>1, <1>2, <1>3, <1>4, <1>5, <1>6, <1>7, <1>8, <1>9, <1>10, <1>11, <1>12, <1>13, <1>14
  DEF Next, Pass, Poll, DeliverPendingRun

-----------------------------------------------------------------------------
(* The run of a delivery goes on: whole replies stay whole, and one that    *)
(* ended changes no more, but for the reply a canceled one has left.        *)
GoesOn(r) ==
    /\ Last(r) <= Last(r)'
    /\ \A i \in 1 .. Last(r) : reply[r][i] = Whole => reply'[r][i] = Whole
    /\ status[r] \in Ended => status'[r] = status[r]
    /\ Good(status[r]) => reply'[r] = reply[r]

LEMMA ShownInit == Init => ShownInv
<1> SUFFICES ASSUME Init PROVE ShownInv
  OBVIOUS
<1>1. TypeOK /\ Serving
  BY BaseInit DEF Base
<1> SUFFICES ASSUME NEW r \in Runs PROVE WholeReplies(r) /\ ViewHolds(r) /\ MemoryHolds(r) /\ DoneIsShown(r)
  BY <1>1 DEF ShownInv
<1>2. reply[r] = <<>> /\ Last(r) = 0 /\ delivery[r] = "pending"
  BY DEF Init, Last, Deliveries
<1>3. WholeReplies(r)
  BY <1>2, BoundAssumption DEF WholeReplies
<1>4. ViewHolds(r)
  <2>1. mem[r].cursor = 0 /\ \A i \in Replies : mem[r].view[i] = 0 /\ i \in Nat /\ i > 0
    <3>1. mem[r] = Fresh /\ \A i \in Replies : i \in Nat /\ i > 0
      BY DEF Init, Replies
    <3> QED BY <3>1, FreshView
  <2> QED BY <1>2, <2>1 DEF ViewHolds, Whole
<1>5. MemoryHolds(r)
  BY FreshMem, ItemsKnown DEF MemoryHolds, Remembered, Init, Fresh, Unsent, Whole
<1>6. DoneIsShown(r)
  BY <1>2 DEF DoneIsShown, Init
<1> QED BY <1>3, <1>4, <1>5, <1>6

LEMMA RunGoesOn ==
    ASSUME TypeOK, TypeOK', NEW r \in Runs, NEW q \in Runs, WholeReplies(r),
           Generate(q) \/ AskApproval(q) \/ Decide(q) \/ EndRun(q) \/ CancelRun(q) \/ SealCanceled(q)
    PROVE  GoesOn(r) /\ WholeReplies(r)'
<1>1. /\ reply[r] \in Seq(Texts) /\ Last(r) = Len(reply[r]) /\ Last(r) \in Nat
      /\ \A i \in 1 .. Last(r) : reply[r][i] \in {Part, Whole}
      /\ Part # Whole /\ MaxReplies \in Nat
      /\ status \in [Runs -> {"running", "asking", "completed", "failed", "canceled"}]
  BY BoundAssumption DEF TypeOK, Last, Texts, Part, Whole, Ended
<1>2. CASE reply'[r] = reply[r] /\ (Good(status'[r]) => Good(status[r]))
           /\ (status[r] \in Ended => status'[r] = status[r])
  BY <1>1, <1>2 DEF GoesOn, WholeReplies, Last
<1>3. CASE reply'[r] = Sealed(r) /\ status[r] \in {"running", "canceled"}
           /\ (status[r] = "canceled" => status'[r] = "canceled")
  <2>1. Last(r)' = Last(r) /\ \A i \in 1 .. Last(r) : reply'[r][i] = Whole
    BY <1>3, SealedText DEF Last
  <2> QED BY <1>1, <1>3, <2>1 DEF GoesOn, WholeReplies, Good, Ended
<1>4. CASE reply'[r] = Append(reply[r], Part) /\ status[r] = "running" /\ status'[r] = "running"
           /\ ~Open(r) /\ Last(r) < MaxReplies
  <2>1. /\ Last(r)' = Last(r) + 1
        /\ \A i \in 1 .. Last(r) : reply'[r][i] = reply[r][i]
    BY <1>1, <1>4 DEF Last
  <2>2. \A i \in 1 .. Last(r) : reply[r][i] = Whole
    BY <1>1, <1>4 DEF Open, WholeReplies
  <2> QED BY <1>1, <1>4, <2>1, <2>2 DEF GoesOn, WholeReplies, Good, Ended
<1>5. CASE r = q
  BY <1>1, <1>2, <1>3, <1>4, <1>5 DEF Generate, AskApproval, Decide, EndRun, CancelRun, SealCanceled, TypeOK, Good, Ended
<1>6. CASE r # q
  BY <1>1, <1>2, <1>6 DEF Generate, AskApproval, Decide, EndRun, CancelRun, SealCanceled, TypeOK
<1> QED BY <1>5, <1>6

LEMMA RunGoingOnKeeps ==
    ASSUME TypeOK, TypeOK', NEW r \in Runs, GoesOn(r), UNCHANGED <<delivery, chat, bot, file>>,
           ViewHolds(r), MemoryHolds(r), DoneIsShown(r)
    PROVE  (ViewHolds(r) /\ MemoryHolds(r) /\ DoneIsShown(r))'
<1>1. /\ Last(r) \in Nat /\ Last(r)' \in Nat
      /\ mem[r].cursor \in Nat /\ \A i \in Replies : i \in Nat /\ i >= 1
  BY DEF TypeOK, Last, Mems, Replies
<1>2. \A i \in Replies : i <= Last(r) /\ reply[r][i] = Whole => i <= Last(r)' /\ reply'[r][i] = Whole
  BY <1>1 DEF GoesOn
<1>3. ViewHolds(r)'
  <2>1. mem' = mem
    BY DEF bot
  <2> QED BY <1>1, <1>2, <2>1 DEF GoesOn, ViewHolds
<1>4. MemoryHolds(r)'
  BY <1>2 DEF MemoryHolds, Remembered, bot
<1>5. DoneIsShown(r)'
  <2>1. Good(status[r]) => reply'[r] = reply[r] /\ Last(r)' = Last(r)
    BY DEF GoesOn, Last
  <2>2. status[r] \in Ended => status'[r] = status[r]
    BY DEF GoesOn
  <2>3. \A s : Good(s) => s \in Ended
    BY DEF Good, Ended
  <2> QED BY <2>1, <2>2, <2>3 DEF DoneIsShown, Finished, ShowsReplies, bot
<1> QED BY <1>3, <1>4, <1>5

(* A run whose delivery is acknowledged, or is about to be. *)
Done(r) == delivery[r] = "sent" \/ r \in receipts \/ (pc = "ack" /\ at = r)

(* A step of the bot that shows and forgets nothing of a run. *)
LEMMA QuietStep ==
    ASSUME ShownInv, TypeOK', NEW r \in Runs, UNCHANGED <<core, file>>,
           chat'[r] = chat[r], mem'[r] = mem[r], delivery'[r] = "pending" => delivery[r] = "pending",
           pc # "down", pc' # "show", pc' = "load" /\ at' = r /\ seen' \in Ended => status[r] = seen',
           Done(r)' => Done(r)
    PROVE  (WholeReplies(r) /\ ViewHolds(r) /\ MemoryHolds(r) /\ DoneIsShown(r))'
<1>1. WholeReplies(r) /\ ViewHolds(r) /\ MemoryHolds(r) /\ DoneIsShown(r)
  BY DEF ShownInv
<1>2. WholeReplies(r)' /\ ViewHolds(r)'
  BY <1>1 DEF WholeReplies, ViewHolds, Last, core
<1>3. MemoryHolds(r)'
  BY <1>1 DEF MemoryHolds, Remembered, Last, core
<1>4. DoneIsShown(r)'
  BY <1>1 DEF DoneIsShown, Finished, ShowsReplies, Last, Done, core
<1> QED BY <1>2, <1>3, <1>4

(* The messages are read: nothing the cursor passes may change any more. *)
LEMMA ReadKeeps ==
    ASSUME ShownInv, TypeOK', MaxReplies <= FirstLoad, NEW r \in Runs, pc = "load",
           mem' = [mem EXCEPT ![at] = Loaded(at)], GoTo("show"), UNCHANGED <<core, delivery, chat, receipts, file>>
    PROVE  (WholeReplies(r) /\ ViewHolds(r) /\ MemoryHolds(r) /\ DoneIsShown(r))'
<1>1. WholeReplies(r) /\ ViewHolds(r) /\ MemoryHolds(r) /\ DoneIsShown(r) /\ at \in Runs
  BY DEF ShownInv, Serving
<1>2. WholeReplies(r)'
  BY <1>1 DEF WholeReplies, Last, core
<1>3. ASSUME at # r PROVE (ViewHolds(r) /\ MemoryHolds(r) /\ DoneIsShown(r))'
  <2>1. mem'[r] = mem[r] /\ at' # r /\ pc' # "ack"
    BY <1>1, <1>3 DEF GoTo, ShownInv, TypeOK
  <2>2. ViewHolds(r)'
    BY <1>1, <2>1 DEF ViewHolds, Last, core
  <2>3. MemoryHolds(r)'
    BY <1>1, <2>1 DEF MemoryHolds, Remembered, Last, core, GoTo
  <2>4. DoneIsShown(r)'
    BY <1>1, <2>1 DEF DoneIsShown, Finished, ShowsReplies, Last, core
  <2> QED BY <2>2, <2>3, <2>4
<1>4. ASSUME at = r PROVE (ViewHolds(r) /\ MemoryHolds(r) /\ DoneIsShown(r))'
  <2>1. /\ mem'[r] = Loaded(r) /\ at' = r /\ pc' = "show" /\ seen' = seen /\ mem[r] \in Mems
        /\ Last(r) \in Nat /\ MaxReplies \in Nat /\ Last(r) <= MaxReplies
    BY <1>1, <1>4, BoundAssumption DEF GoTo, ShownInv, TypeOK, Last, WholeReplies
  <2>2. /\ Loaded(r).cursor = Settled(Last(r)) /\ Loaded(r).sent = mem[r].sent
        /\ Loaded(r).view = [i \in Replies |-> IF i \in From(r) + 1 .. Last(r) THEN reply[r][i] ELSE mem[r].view[i]]
    BY <2>1 DEF Loaded, Mems
  <2>3. /\ From(r) \in Nat
        /\ \A i \in Replies : i <= From(r) => i <= mem[r].cursor
    <3>1. From(r) = IF mem[r].loaded THEN mem[r].cursor ELSE 0
      BY <2>1, LimitAssumption DEF From
    <3> QED BY <2>1, <3>1 DEF Mems, Replies
  <2>4. \A i \in Replies : i <= Last(r) /\ reply[r][i] = Whole => Loaded(r).view[i] = Whole
    BY <1>1, <2>1, <2>2, <2>3 DEF ViewHolds, Replies
  <2>5. \A i \in Replies : Loaded(r).view[i] = Whole => i <= Last(r) /\ reply[r][i] = Whole
    BY <1>1, <2>1, <2>2, <2>3 DEF ViewHolds, Replies
  <2>6. ViewHolds(r)'
    <3>1. Settled(Last(r)) \in Nat /\ Settled(Last(r)) <= Last(r)
          /\ \A i \in Replies : i <= Settled(Last(r)) => i \in 1 .. Last(r) /\ i < Last(r)
      BY <2>1 DEF Settled, Replies
    <3>2. \A i \in Replies : i <= Settled(Last(r)) => Loaded(r).view[i] = Whole
      BY <1>1, <2>1, <2>4, <3>1 DEF WholeReplies
    <3>3. reply' = reply /\ Last(r)' = Last(r)
      BY DEF core, Last
    <3> QED BY <2>1, <2>2, <2>5, <3>1, <3>2, <3>3 DEF ViewHolds
  <2>7. MemoryHolds(r)'
    <3>1. mem'[r].sent = mem[r].sent /\ mem'[r].view = Loaded(r).view /\ reply' = reply /\ Last(r)' = Last(r)
      BY <2>1, <2>2 DEF core, Last
    <3> QED BY <1>1, <2>1, <2>4, <3>1 DEF MemoryHolds, Remembered
  <2>8. DoneIsShown(r)'
    <3>1. status' = status /\ reply' = reply /\ Last(r)' = Last(r) /\ pc' # "ack"
      BY <2>1 DEF core, Last
    <3>2. Good(seen) /\ status[r] = seen => \A i \in 1 .. Last(r) : Loaded(r).view[i] = Whole
      <4>1. \A i \in 1 .. Last(r) : i \in Replies /\ i <= Last(r)
        BY <2>1 DEF Replies
      <4> QED BY <1>1, <2>4, <4>1 DEF WholeReplies
    <3>3. seen \in Ended => status[r] = seen
      BY <1>1, <1>4 DEF DoneIsShown
    <3>4. \A s : Good(s) => s \in Ended
      BY DEF Good, Ended
    <3> QED BY <1>1, <2>1, <3>1, <3>2, <3>3, <3>4 DEF DoneIsShown, Finished, ShowsReplies
  <2> QED BY <2>6, <2>7, <2>8
<1> QED BY <1>2, <1>3, <1>4

(* A reply is sent once, and edited from then on, so that its newest        *)
(* message is the one remembered; it is remembered whole only if it is.     *)
LEMMA SendKeeps ==
    ASSUME ShownInv, TypeOK', NEW r \in Runs, pc = "show", NEW i \in ToShow, Send(i),
           UNCHANGED <<core, delivery, receipts, file>>
    PROVE  (WholeReplies(r) /\ ViewHolds(r) /\ MemoryHolds(r) /\ DoneIsShown(r))'
<1>1. /\ WholeReplies(r) /\ ViewHolds(r) /\ MemoryHolds(r) /\ DoneIsShown(r) /\ at \in Runs
      /\ ViewHolds(at) /\ MemoryHolds(at) /\ delivery[at] = "pending" /\ at \notin receipts
      /\ pc' # "ack" /\ pc' # "load" /\ (pc' = "show" => at' = at /\ seen' = seen)
  BY DeliveriesAssumption DEF ShownInv, Serving, Send, GoTo, Retry, Leave, Deliveries
<1>2. i \in Items /\ Wanted(i) \in Texts /\ (i \in Replies => mem[at].view[i] = Wanted(i))
  BY <1>1, WantedText DEF ShownInv
<1> DEFINE k == mem[at].sent[i].at
           n == IF k = 0 THEN Len(chat[at][i]) + 1 ELSE k
<1>3. /\ k \in Nat /\ Len(chat[at][i]) \in Nat /\ chat[at][i] \in Seq(Texts) /\ mem[at] \in Mems
      /\ chat \in [Deliveries -> [Items -> Seq(Texts)]] /\ at \in Deliveries /\ n \in Nat
  <2>1. chat \in [Deliveries -> [Items -> Seq(Texts)]] /\ mem \in [Runs -> Mems] /\ at \in Deliveries
    BY <1>1 DEF ShownInv, TypeOK, Deliveries
  <2>2. chat[at][i] \in Seq(Texts) /\ mem[at] \in Mems
    BY <1>1, <1>2, <2>1
  <2>3. k \in Nat /\ Len(chat[at][i]) \in Nat
    BY <1>2, <2>2 DEF Mems, Sends
  <2> QED BY <2>1, <2>2, <2>3
<1> PICK s : s = [at |-> n, text |-> Wanted(i)]
  OBVIOUS
<1>s. s.at = n /\ s.text = Wanted(i)
  OBVIOUS
<1>4. mem' = mem \/ mem' = [mem EXCEPT ![at] = [mem[at] EXCEPT !.sent = [mem[at].sent EXCEPT ![i] = s]]]
  BY DEF Send
<1>m. LET m == [mem[at] EXCEPT !.sent = [mem[at].sent EXCEPT ![i] = s]] IN
        /\ m.view = mem[at].view /\ m.cursor = mem[at].cursor /\ m.sent[i] = s
        /\ \A j \in Items \ {i} : m.sent[j] = mem[at].sent[j]
  BY <1>2, <1>3 DEF Mems
<1>5. WholeReplies(r)'
  BY <1>1 DEF WholeReplies, Last, core
<1>6. mem'[r].view = mem[r].view /\ mem'[r].cursor = mem[r].cursor
  BY <1>1, <1>4, <1>m DEF ShownInv, TypeOK
<1>7. ViewHolds(r)'
  BY <1>1, <1>6 DEF ViewHolds, Last, core
<1>8. ASSUME NEW j \in Items, at # r \/ j # i PROVE chat'[r][j] = chat[r][j] /\ mem'[r].sent[j] = mem[r].sent[j]
  <2>1. chat'[r][j] = chat[r][j]
    <3>1. chat' = [chat EXCEPT ![at][i] = IF k = 0 THEN Append(@, Wanted(i)) ELSE [@ EXCEPT ![k] = Wanted(i)]]
      BY DEF Send, Shown
    <3> QED BY <1>2, <1>3, <1>8, <3>1 DEF Deliveries
  <2>2. mem'[r].sent[j] = mem[r].sent[j]
    BY <1>1, <1>4, <1>m, <1>8 DEF ShownInv, TypeOK
  <2> QED BY <2>1, <2>2
<1>9. MemoryHolds(r)'
  <2> SUFFICES ASSUME NEW j \in Replies
               PROVE  /\ Remembered(r, j, mem[r].sent[j])'
                      /\ Remembered(r, j, file[r][j])'
                      /\ file'[r][j].at # 0 /\ delivery'[r] = "pending" /\ pc' # "down"
                             => mem'[r].sent[j].at = file'[r][j].at
    BY DEF MemoryHolds
  <2>0. /\ j \in Items /\ Last(r)' = Last(r) /\ reply' = reply /\ file' = file /\ delivery' = delivery
        /\ Remembered(r, j, mem[r].sent[j]) /\ Remembered(r, j, file[r][j])
        /\ (file[r][j].at # 0 /\ delivery[r] = "pending" => mem[r].sent[j].at = file[r][j].at)
        /\ (pc' = "show" => at' = at)
    BY <1>1, ItemsKnown DEF core, Last, MemoryHolds
  <2>1. CASE at # r \/ j # i
    BY <1>6, <1>8, <2>0, <2>1 DEF Remembered
  <2>2. CASE at = r /\ j = i
    <3>1. /\ chat[r][i] \in Seq(Texts)
          /\ k = mem[r].sent[i].at /\ (k # 0 => k = Len(chat[r][i]))
          /\ (file[r][i].at # 0 => k = file[r][i].at)
          /\ mem[r].sent[i].text # Wanted(i) /\ mem[r].view[i] = Wanted(i)
      BY <1>1, <1>2, <1>3, <2>0, <2>2, WantedText DEF Remembered, ShownInv
    <3>2. /\ chat'[r][i] = IF k = 0 THEN Append(chat[r][i], Wanted(i)) ELSE [chat[r][i] EXCEPT ![k] = Wanted(i)]
          /\ (mem'[r].sent[i] = mem[r].sent[i] \/ mem'[r].sent[i] = s)
      BY <1>1, <1>2, <1>3, <1>4, <1>m, <2>2 DEF Send, Shown, ShownInv, TypeOK
    <3>3. n = Len(chat'[r][i]) /\ chat'[r][i][n] = Wanted(i)
      <4>1. CASE k = 0
        BY <1>2, <1>3, <2>2, <3>2, <4>1, AppendText
      <4>2. CASE k # 0
        <5>1. k \in 1 .. Len(chat[r][i])
          BY <1>3, <3>1, <4>2
        <5> QED BY <1>2, <1>3, <3>1, <3>2, <4>2, <5>1, EditText
      <4> QED BY <4>1, <4>2
    <3>4. Wanted(i) # 0 /\ (Wanted(i) = Whole => i <= Last(r) /\ reply[r][i] = Whole)
      BY <1>1, <1>2, <2>2, <3>1 DEF ViewHolds, Texts, Part, Whole
    <3>5. Remembered(r, i, s)'
      BY <1>3, <1>s, <1>6, <2>0, <2>2, <3>1, <3>3, <3>4 DEF Remembered
    <3>6. ASSUME NEW t, Remembered(r, i, t), t.at # 0 => t.at = n, t.text = Whole => Wanted(i) = Whole
          PROVE  Remembered(r, i, t)'
      <4>1. t.text # 0 => t.at # 0
        BY <3>6 DEF Remembered
      <4>2. t.text = Whole => /\ i <= Last(r) /\ reply[r][i] = Whole /\ t.at = n
                              /\ mem[r].view[i] = Whole
        BY <3>1, <3>4, <3>6, <4>1 DEF Whole
      <4> QED BY <1>6, <2>0, <2>2, <3>3, <3>6, <4>1, <4>2 DEF Remembered
    <3>7. file[r][i].at = 0 \/ file[r][i].at = n
      BY <3>1
    <3>8. /\ (file[r][i].text = Whole => Wanted(i) = Whole)
          /\ (mem[r].sent[i].text # Whole)
      BY <1>1, <1>2, <2>0, <2>2, <3>1 DEF Remembered
    <3>9. Remembered(r, i, file[r][i])'
      <4>1. \A t : t = file[r][i] => Remembered(r, i, t)'
        BY <2>0, <2>2, <3>6, <3>7, <3>8
      <4>2. file'[r][i] = file[r][i]
        BY <2>0
      <4> QED BY <4>1, <4>2 DEF Remembered
    <3>10. Remembered(r, i, mem[r].sent[i])'
      <4>1. \A t : t = mem[r].sent[i] /\ mem'[r].sent[i] = t => Remembered(r, i, t)'
        <5>1. mem[r].sent[i].at = 0 \/ mem[r].sent[i].at = n
          BY <2>2, <3>1
        <5> QED BY <2>0, <2>2, <3>6, <3>8, <5>1
      <4> QED BY <3>2, <3>5, <4>1 DEF Remembered
    <3>11. file[r][i].at # 0 /\ delivery[r] = "pending" => mem'[r].sent[i].at = file[r][i].at
      BY <1>s, <2>2, <3>1, <3>2
    <3> QED BY <2>0, <2>2, <3>9, <3>10, <3>11
  <2> QED BY <2>1, <2>2
<1>10. DoneIsShown(r)'
  <2>1. CASE at # r
    <3>1. \A j \in 1 .. Last(r) : j \in Items
      <4>1. Last(r) \in Nat /\ MaxReplies \in Nat /\ Last(r) <= MaxReplies
        BY <1>1, BoundAssumption DEF WholeReplies, ShownInv, TypeOK, Last
      <4>2. \A j \in 1 .. Last(r) : j \in Replies
        BY <4>1 DEF Replies
      <4> QED BY <4>2, ItemsKnown
    <3> QED BY <1>1, <1>6, <1>8, <2>1, <3>1 DEF DoneIsShown, Finished, ShowsReplies, Last, core
  <2>2. CASE at = r
    BY <1>1, <1>6, <2>2 DEF DoneIsShown, Last, core
  <2> QED BY <2>1, <2>2
<1> QED BY <1>5, <1>7, <1>9, <1>10

(* The newest state is acknowledged: everything of it was shown. *)
LEMMA AllShownKeeps ==
    ASSUME ShownInv, TypeOK', NEW r \in Runs, AllShown
    PROVE  (WholeReplies(r) /\ ViewHolds(r) /\ MemoryHolds(r) /\ DoneIsShown(r))'
<1>1. /\ WholeReplies(r) /\ ViewHolds(r) /\ MemoryHolds(r) /\ DoneIsShown(r) /\ at \in Runs /\ pc = "show"
      /\ UNCHANGED <<core, delivery, chat, left, mem, receipts, waiting, file, count>>
  BY DEF ShownInv, Serving, AllShown
<1>2. WholeReplies(r)' /\ ViewHolds(r)'
  BY <1>1 DEF WholeReplies, ViewHolds, Last, core
<1>3. MemoryHolds(r)'
  BY <1>1 DEF AllShown, MemoryHolds, Remembered, Last, core, GoTo, Leave
<1>4. ASSUME seen \in Ended, at = r PROVE Finished(r)
  <2>1. status[r] = seen /\ ToShow = {} /\ ~Preview
    BY <1>1, <1>4 DEF DoneIsShown, AllShown, Preview, Ended
  <2>2. ASSUME Good(seen), NEW i \in 1 .. Last(r)
        PROVE  chat[r][i] # <<>> /\ chat[r][i][Len(chat[r][i])] = reply[r][i]
    <3>1. i \in Replies /\ i <= Last(r) /\ mem[r].view[i] = Whole /\ reply[r][i] = Whole
      BY <1>1, <1>4, <2>1, <2>2, BoundAssumption DEF WholeReplies, DoneIsShown, Replies, ShownInv, TypeOK, Last
    <3>2. i \in Due
      BY <1>4, <2>2, <3>1 DEF Due, Viewed, Good, Whole
    <3>3. mem[r].sent[i].text = Whole
      BY <1>4, <2>1, <3>1, <3>2 DEF ToShow, Missing, Wanted
    <3>4. Len(chat[r][i]) # 0 /\ chat[r][i][Len(chat[r][i])] = Whole
      BY <1>1, <3>1, <3>3 DEF MemoryHolds, Remembered, Whole
    <3> QED BY <3>1, <3>4
  <2> QED BY <1>4, <2>1, <2>2 DEF Finished, ShowsReplies
<1>5. DoneIsShown(r)'
  BY <1>1, <1>4 DEF AllShown, DoneIsShown, Finished, ShowsReplies, Last, core, GoTo, Leave
<1> QED BY <1>2, <1>3, <1>5

(* A step between two passes, or the end of one: what was sent is saved,    *)
(* remembered again or forgotten.                                           *)
LEMMA MemoryStep ==
    ASSUME ShownInv, TypeOK', NEW r \in Runs, UNCHANGED <<core, chat>>, pc' \notin {"load", "show"},
           \/ mem'[r].cursor = mem[r].cursor /\ mem'[r].view = mem[r].view
           \/ mem'[r].cursor = 0 /\ \A i \in Replies : mem'[r].view[i] = 0,
           \A i \in Replies : /\ mem'[r].sent[i] \in {mem[r].sent[i], file[r][i], Unsent}
                              /\ file'[r][i] \in {mem[r].sent[i], file[r][i], Unsent}
                              /\ file'[r][i].at # 0 /\ delivery'[r] = "pending" /\ pc' # "down"
                                    => mem'[r].sent[i].at = file'[r][i].at,
           Done(r)' => Done(r)
    PROVE  (WholeReplies(r) /\ ViewHolds(r) /\ MemoryHolds(r) /\ DoneIsShown(r))'
<1>1. WholeReplies(r) /\ ViewHolds(r) /\ MemoryHolds(r) /\ DoneIsShown(r)
  BY DEF ShownInv
<1>2. WholeReplies(r)'
  BY <1>1 DEF WholeReplies, Last, core
<1>3. ViewHolds(r)'
  <2>1. \A i \in Replies : i \in Nat /\ i > 0
    BY DEF Replies
  <2>2. Last(r) \in Nat
    BY DEF ShownInv, TypeOK, Last
  <2> QED BY <1>1, <2>1, <2>2 DEF ViewHolds, Last, core, Whole
<1>4. ASSUME NEW i \in Replies, NEW s, s = mem[r].sent[i] \/ s = file[r][i] \/ s = Unsent
      PROVE  Remembered(r, i, s)'
  <2>1. Remembered(r, i, Unsent)
    BY DEF Remembered, Unsent, Whole
  <2>2. Remembered(r, i, s)
    BY <1>1, <1>4, <2>1 DEF MemoryHolds
  <2> QED BY <2>2 DEF Remembered, Last, core
<1>5. MemoryHolds(r)'
  <2>1. ASSUME NEW i \in Replies
        PROVE  Remembered(r, i, mem[r].sent[i])' /\ Remembered(r, i, file[r][i])'
    <3>1. PICK s, t : s = mem'[r].sent[i] /\ t = file'[r][i]
      OBVIOUS
    <3>2. s = mem[r].sent[i] \/ s = file[r][i] \/ s = Unsent
      BY <3>1
    <3>3. t = mem[r].sent[i] \/ t = file[r][i] \/ t = Unsent
      BY <3>1
    <3>4. Remembered(r, i, s)' /\ Remembered(r, i, t)'
      BY <1>4, <3>2, <3>3 DEF Remembered
    <3> QED BY <3>1, <3>4 DEF Remembered
  <2>2. ASSUME NEW i \in Replies
        PROVE  file'[r][i].at # 0 /\ delivery'[r] = "pending" /\ pc' # "down"
                   => mem'[r].sent[i].at = file'[r][i].at
    OBVIOUS
  <2> QED BY <2>1, <2>2 DEF MemoryHolds
<1>6. DoneIsShown(r)'
  BY <1>1 DEF DoneIsShown, Finished, ShowsReplies, Last, Done, core
<1> QED BY <1>2, <1>3, <1>5, <1>6

LEMMA ShownStep ==
    ASSUME MaxReplies <= FirstLoad, ShownInv, Base', [Next]_vars, NEW r \in Runs
    PROVE  (WholeReplies(r) /\ ViewHolds(r) /\ MemoryHolds(r) /\ DoneIsShown(r))'
<1> DEFINE Kept == (WholeReplies(r) /\ ViewHolds(r) /\ MemoryHolds(r) /\ DoneIsShown(r))'
<1>a. /\ TypeOK /\ TypeOK' /\ Serving /\ Serving' /\ Base
      /\ WholeReplies(r) /\ ViewHolds(r) /\ MemoryHolds(r) /\ DoneIsShown(r)
  BY DEF ShownInv, Base
<1>b. /\ r \in Deliveries /\ r # 0 /\ r \notin Notices
      /\ pc \in {"idle", "next", "down"} => at = 0
      /\ pc \in {"run", "load", "show"} => at \in Runs
      /\ pc = "notice" => at \in Notices
      /\ at # 0 => delivery[at] = "pending"
  BY <1>a, DeliveriesAssumption DEF Serving, Deliveries
<1>1. CASE UNCHANGED vars
  BY <1>1, <1>a DEF vars, core, bot, WholeReplies, ViewHolds, MemoryHolds, Remembered, DoneIsShown, Finished,
                    ShowsReplies, Last
<1>2. ASSUME NEW q \in Runs,
             Generate(q) \/ AskApproval(q) \/ Decide(q) \/ EndRun(q) \/ CancelRun(q) \/ SealCanceled(q)
      PROVE  Kept
  <2>1. UNCHANGED <<delivery, chat, bot, file>>
    BY <1>2 DEF Generate, AskApproval, Decide, EndRun, CancelRun, SealCanceled
  <2>2. GoesOn(r) /\ WholeReplies(r)'
    BY <1>2, <1>a, RunGoesOn
  <2>3. (ViewHolds(r) /\ MemoryHolds(r) /\ DoneIsShown(r))'
    BY <2>1, <2>2, <1>a, RunGoingOnKeeps
  <2> QED BY <2>2, <2>3
<1>3. ASSUME NEW D, DeliverPending(D) PROVE Kept
  <2>1. pc # "down" /\ pc' = "next" /\ UNCHANGED <<core, file, chat, mem, delivery, receipts>>
    BY <1>3 DEF DeliverPending
  <2> QED BY <2>1, <1>a, QuietStep DEF Done
<1>4. CASE NextDelivery
  <2>1. pc = "next" /\ UNCHANGED <<core, delivery, chat, seen, mem, receipts, file>>
    BY <1>4 DEF NextDelivery
  <2>2. pc' \in {"next", "ack", "notice", "run"} /\ (pc' = "ack" => at' \in receipts)
    BY <1>4, <2>1, <1>a DEF NextDelivery, Skip, Take, Task
  <2> QED BY <2>1, <2>2, <1>a, QuietStep DEF Done
<1>5. ASSUME NEW c \in Chats, Deadline(c) PROVE Kept
  <2>1. UNCHANGED <<core, delivery, chat, pc, at, seen, mem, receipts, file>>
    BY <1>5 DEF Deadline
  <2> QED BY <2>1, <1>a DEF core, WholeReplies, ViewHolds, MemoryHolds, Remembered, DoneIsShown, Finished,
                            ShowsReplies, Last
<1>6. CASE GetRun
  <2>1. /\ pc = "run" /\ UNCHANGED <<core, delivery, chat, mem, receipts, file>>
        /\ pc' = "next" \/ (pc' = "load" /\ at' = at /\ seen' = status[at])
    BY <1>6 DEF GetRun, Retry, Leave
  <2> QED BY <2>1, <1>a, QuietStep DEF Done
<1>7. CASE RunMessages
  <2>1. pc = "load" /\ UNCHANGED <<core, delivery, chat, receipts, file>>
    BY <1>7 DEF RunMessages
  <2>2. CASE mem' = [mem EXCEPT ![at] = Loaded(at)] /\ GoTo("show")
    BY <2>1, <2>2, <1>a, ReadKeeps
  <2>3. CASE Retry /\ UNCHANGED mem
    <3>1. pc' = "next"
      BY <2>3 DEF Retry, Leave
    <3> QED BY <2>1, <2>3, <3>1, <1>a, QuietStep DEF Done
  <2> QED BY <1>7, <2>2, <2>3 DEF RunMessages
<1>8. CASE Show
  <2>1. pc = "show" /\ at \in Runs /\ UNCHANGED <<core, receipts, file>>
    BY <1>8, <1>b DEF Show
  <2>2. ASSUME NEW i \in First(ToShow), Send(i), UNCHANGED delivery PROVE Kept
    <3>1. i \in ToShow
      BY DEF First
    <3> QED BY <2>1, <2>2, <3>1, <1>a, SendKeeps
  <2>3. CASE Leave /\ UNCHANGED <<chat, mem>> /\ delivery' \in {delivery, [delivery EXCEPT ![at] = "failed"]}
    <3>1. pc' = "next" /\ delivery'[r] \in {delivery[r], "failed"}
      BY <2>1, <2>3, <1>a, <1>b DEF Leave, TypeOK
    <3> QED BY <2>1, <2>3, <3>1, <1>a, QuietStep DEF Done
  <2> QED BY <1>8, <2>2, <2>3 DEF Show, Retry
<1>9. CASE AllShown
  BY <1>9, <1>a, AllShownKeeps
<1>10. CASE SendNotice
  <2>1. pc = "notice" /\ at \in Notices /\ at # r /\ UNCHANGED <<core, mem, receipts, file>>
    BY <1>10, <1>b DEF SendNotice
  <2>2. pc' = "next" \/ (pc' = "ack" /\ at' # r)
    BY <1>10, <2>1 DEF SendNotice, Retry, Leave, GoTo
  <2>3. chat'[r] = chat[r] /\ delivery'[r] = delivery[r]
    BY <1>10, <2>1, <1>a, <1>b DEF SendNotice, Shown, TypeOK
  <2> QED BY <2>1, <2>2, <2>3, <1>a, QuietStep DEF Done
<1>11. CASE Acknowledge
  <2>1. pc = "ack" /\ pc' = "next" /\ UNCHANGED <<core, chat, file>>
    BY <1>11 DEF Acknowledge, Answered, Retry, Leave
  <2>2. /\ delivery'[r] = delivery[r] \/ (at = r /\ delivery'[r] = "sent")
        /\ r \in receipts' => r \in receipts \/ r = at
        /\ mem'[r] = mem[r] \/ (at = r /\ delivery'[r] = "sent" /\ mem'[r] = Fresh)
    BY <1>11, <1>a, <1>b DEF Acknowledge, Answered, Sent, TypeOK
  <2>3. CASE mem'[r] = mem[r]
    BY <2>1, <2>2, <2>3, <1>a, <1>b, QuietStep DEF Done
  <2>4. CASE at = r /\ delivery'[r] = "sent" /\ mem'[r] = Fresh
    <3>1. \A i \in Replies : /\ mem'[r].sent[i] = Unsent /\ mem'[r].view[i] = 0 /\ mem'[r].cursor = 0
                              /\ file'[r][i] = file[r][i]
      BY <2>1, <2>4, FreshMem, FreshView, ItemsKnown
    <3>2. mem'[r].cursor = 0
      BY <2>4, FreshView
    <3> QED BY <2>1, <2>4, <3>1, <3>2, <1>a, MemoryStep DEF Done
  <2> QED BY <2>2, <2>3, <2>4
<1>12. CASE EndPass
  <2>1. pc = "next" /\ pc' = "idle" /\ UNCHANGED <<core, delivery, chat, mem, receipts>> /\ file'[r] = mem[r].sent
    BY <1>12 DEF EndPass, Saved
  <2> QED BY <2>1, <1>a, MemoryStep DEF Done
<1>13. CASE Stop
  <2>1. /\ pc' = "down" /\ receipts' = {} /\ UNCHANGED <<core, delivery, chat>> /\ mem'[r] = Fresh
        /\ file'[r] = file[r] \/ file'[r] = mem[r].sent
    BY <1>13 DEF Stop, Saved
  <2>2. \A i \in Replies : mem'[r].sent[i] = Unsent /\ mem'[r].view[i] = 0
    BY <2>1, FreshMem, FreshView, ItemsKnown
  <2> QED BY <2>1, <2>2, <1>a, FreshView, MemoryStep DEF Done
<1>14. CASE Start
  <2>1. /\ pc = "down" /\ pc' = "idle" /\ UNCHANGED <<core, delivery, chat, receipts, file>>
        /\ mem'[r] = [Fresh EXCEPT !.sent = file[r]]
    BY <1>14 DEF Start
  <2>2. [Fresh EXCEPT !.sent = file[r]].sent = file[r] /\ [Fresh EXCEPT !.sent = file[r]].view = Fresh.view
        /\ [Fresh EXCEPT !.sent = file[r]].cursor = Fresh.cursor
    BY FreshMem DEF Mems
  <2>3. mem'[r].sent = file[r] /\ mem'[r].cursor = 0 /\ \A i \in Replies : mem'[r].view[i] = 0
    BY <2>1, <2>2, FreshView
  <2> QED BY <2>1, <2>3, <1>a, MemoryStep DEF Done
<1> QED
  BY <1>1, <1>2, <1>3, <1>4, <1>5, <1>6, <1>7, <1>8, <1>9, <1>10, <1>11, <1>12, <1>13, <1>14
  DEF Next, Pass, Poll, DeliverPendingRun

(* Every variable keeps its type. *)
THEOREM TypesKept == Spec => []TypeOK
<1>1. Init => Base
  BY BaseInit
<1>2. Base /\ [Next]_vars => Base'
  BY BaseStep
<1>3. Base => TypeOK
  BY DEF Base
<1> QED BY <1>1, <1>2, <1>3, PTL DEF Spec

(* Whatever fails and is tried again, stopped or restarted, a message is    *)
(* sent once and once more at most for each reason there was.               *)
THEOREM SentOnceKept == Spec => []SentOnce
<1>1. Init => Base /\ Counted
  BY BaseInit, CountedInit
<1>2. Base /\ Counted /\ [Next]_vars => (Base /\ Counted)'
  BY BaseStep, CountedStep
<1>3. Counted => SentOnce
  BY DEF Counted, SentOnce
<1> QED BY <1>1, <1>2, <1>3, PTL DEF Spec

(* The delivery of a run with no more replies than the first load reads, is *)
(* acknowledged only when its chat shows them all as they ended up.         *)
THEOREM AcknowledgedKept ==
    ASSUME MaxReplies <= FirstLoad
    PROVE  Spec => []AcknowledgedIsShown
<1>1. Init => ShownInv
  BY ShownInit
<1>2. ShownInv /\ [Next]_vars => ShownInv'
  <2> SUFFICES ASSUME ShownInv, [Next]_vars PROVE ShownInv'
    OBVIOUS
  <2>1. Base'
    BY BaseStep DEF ShownInv, Base
  <2>2. \A r \in Runs : (WholeReplies(r) /\ ViewHolds(r) /\ MemoryHolds(r) /\ DoneIsShown(r))'
    BY <2>1, ShownStep
  <2> QED BY <2>1, <2>2 DEF ShownInv, Base
<1>3. ShownInv => AcknowledgedIsShown
  BY DEF ShownInv, DoneIsShown, Finished, Good, AcknowledgedIsShown
<1> QED BY <1>1, <1>2, <1>3, PTL DEF Spec

-----------------------------------------------------------------------------
(* The terminal's view of the event stream. *)

(* An event of the bus, and where a client that follows it may stand. *)
Events == [record : Records, version : Versions, id : Nat]
Clients == {"off", "early", "reading", "read", "live", "failed"}

Lives == [daemon : Nat, stream : Nat]

StreamTypes ==
    /\ store \in [Records -> Versions] /\ writing \in [Writers -> Versions]
    /\ log \in Seq(Events) /\ channel \in Seq(Events) /\ wire \in Seq(Events) /\ early \in Seq(Events)
    /\ sub \in BOOLEAN /\ ended \in BOOLEAN /\ shown \in BOOLEAN
    /\ client \in Clients
    /\ reading \in [id : Nat, left : SUBSET Records, records : [Records -> Versions], life : Nat]
    /\ floor \in Nat /\ taken \in Nat /\ breaks \in Nat
    /\ view \in [Records -> Versions]
    /\ life \in Lives /\ life.stream <= life.daemon
    /\ Len(channel) <= ChannelSize /\ Len(wire) <= WireSize

(* The log of the bus: an event's ID is its place; a record that one thread *)
(* writes is published in the order it was stored in, and nothing of it is  *)
(* newer than what is stored.                                               *)
LogHolds ==
    /\ \A i \in 1 .. LastID : log[i].id = i
    /\ \A i \in 1 .. LastID : log[i].record \in Own => log[i].version <= store[log[i].record]
    /\ \A i, j \in 1 .. LastID :
          i < j /\ log[i].record = log[j].record /\ log[i].record \in Own => log[i].version <= log[j].version
    /\ \A r \in Own : writing[<<"own", r>>] # Nothing => writing[<<"own", r>>] = store[r]

(* What a client that has taken the events up to place n still gets: the    *)
(* next ones, one by one, to the newest if it is subscribed.                *)
Follows(n) ==
    /\ n + Len(wire) + Len(channel) <= LastID
    /\ \A k \in 1 .. Len(wire) : wire[k] = log[n + k]
    /\ \A k \in 1 .. Len(channel) : channel[k] = log[n + Len(wire) + k]
    /\ sub => n + Len(wire) + Len(channel) = LastID

(* What it took before the snapshot: the events since it subscribed.        *)
Holds(n) ==
    /\ Len(early) <= n
    /\ \A k \in 1 .. Len(early) : early[k] = log[n - Len(early) + k]

(* What shows has all events of these places.                               *)
Has(shows, places) ==
    \A i \in 1 .. LastID :
        i \in places /\ log[i].record \in Own => shows[log[i].record] >= log[i].version

Place(n) ==
    /\ taken <= n
    /\ Follows(n)
    /\ client \in {"early", "reading", "read"} => Holds(n)
    /\ client \in {"reading", "read"} =>
          /\ n - Len(early) <= reading.id /\ reading.id <= LastID
          /\ Has(reading.records, 1 .. reading.id)
    /\ client = "live" => floor <= LastID /\ Has(view, 1 .. floor) /\ Has(view, 1 .. n)

Following == client \in {"early", "reading", "read", "live"} /\ life.stream = life.daemon

StreamInv == StreamTypes /\ LogHolds /\ (Following => \E n \in 0 .. LastID : Place(n))

-----------------------------------------------------------------------------
(* Of places there is a last one. *)
LEMMA LastPlace ==
    ASSUME NEW n \in Nat, NEW S \in SUBSET (1 .. n), S # {}
    PROVE  \E m \in S : \A j \in S : j <= m
<1> DEFINE T == {n - i : i \in S}
<1>1. T \in SUBSET Nat /\ T # {}
  <2>1. \A i \in S : i \in 1 .. n /\ n - i \in Nat
    OBVIOUS
  <2> QED BY <2>1
<1>2. PICK x \in T : \A y \in T : ~(<<y, x>> \in OpToRel(<, Nat))
  BY <1>1, NatLessThanWellFounded, WFMin
<1>3. PICK m \in S : x = n - m
  BY <1>2
<1>4. ASSUME NEW j \in S PROVE j <= m
  <2>1. ~(n - j < x)
    BY <1>1, <1>2 DEF OpToRel
  <2> QED BY <2>1, <1>3
<1> QED BY <1>4

(* What shows of a record, once events are applied, is the last one newer   *)
(* than the snapshot, or else what was shown.                               *)
LEMMA AppliedLast ==
    ASSUME NEW shows \in [Records -> Versions], NEW events \in Seq(Events), NEW id \in Nat, NEW r \in Records
    PROVE  \/ /\ Newer(r, events, id) = {}
              /\ Applied(shows, events, id)[r] = shows[r]
           \/ \E m \in Newer(r, events, id) :
                 /\ \A j \in Newer(r, events, id) : j <= m
                 /\ Applied(shows, events, id)[r] = events[m].version
<1> DEFINE N == Newer(r, events, id)
           last == CHOOSE i \in N : \A j \in N : j <= i
<1>1. Len(events) \in Nat /\ DOMAIN events = 1 .. Len(events)
  BY LenProperties
<1>2. N \in SUBSET (1 .. Len(events))
  BY <1>1 DEF Newer
<1>3. CASE N = {}
  BY <1>3 DEF Applied
<1>4. CASE N # {}
  <2>1. \E m \in N : \A j \in N : j <= m
    BY <1>1, <1>2, <1>4, LastPlace
  <2>2. last \in N /\ \A j \in N : j <= last
    BY <2>1
  <2>3. Applied(shows, events, id)[r] = events[last].version
    BY <1>4 DEF Applied
  <2> QED BY <2>2, <2>3
<1> QED BY <1>3, <1>4

LEMMA AppliedType ==
    ASSUME NEW shows \in [Records -> Versions], NEW events \in Seq(Events), NEW id \in Nat
    PROVE  Applied(shows, events, id) \in [Records -> Versions]
<1>1. \A r \in Records : Applied(shows, events, id)[r] \in Versions
  <2> TAKE r \in Records
  <2>1. \A m \in Newer(r, events, id) : events[m] \in Events
    BY LenProperties DEF Newer
  <2>2. \A m \in Newer(r, events, id) : events[m].version \in Versions
    BY <2>1 DEF Events
  <2> QED BY <2>2, AppliedLast
<1>2. Applied(shows, events, id) = [r \in Records |-> Applied(shows, events, id)[r]]
  BY DEF Applied
<1> QED BY <1>1, <1>2

-----------------------------------------------------------------------------
LEMMA NoEvents == <<>> \in Seq(Events) /\ Len(<<>>) = 0
BY EmptySeq

LEMMA NoVersion == 0 \in Versions
BY StreamBounds DEF Versions

LEMMA NothingRead == NoRead \in [id : Nat, left : SUBSET Records, records : [Records -> Versions], life : Nat]
BY NoVersion DEF NoRead

LEMMA NextLife ==
    ASSUME NEW l \in Lives, l.stream <= l.daemon
    PROVE  /\ [l EXCEPT !.daemon = @ + 1] \in Lives
           /\ [l EXCEPT !.daemon = @ + 1].stream = l.stream
           /\ [l EXCEPT !.daemon = @ + 1].daemon = l.daemon + 1
           /\ [l EXCEPT !.stream = l.daemon] \in Lives
           /\ [l EXCEPT !.stream = l.daemon].stream = l.daemon
           /\ [l EXCEPT !.stream = l.daemon].daemon = l.daemon
           /\ l.stream < l.daemon + 1 /\ l.stream <= l.daemon + 1 /\ l.daemon <= l.daemon
BY DEF Lives

LEMMA InitTypes == StreamInit => StreamTypes
<1> SUFFICES ASSUME StreamInit PROVE StreamTypes
  OBVIOUS
<1>1. store \in [Records -> Versions] /\ writing \in [Writers -> Versions] /\ view \in [Records -> Versions]
  BY NoVersion DEF StreamInit, Nothing
<1>2. life \in Lives /\ life.stream <= life.daemon
  BY DEF StreamInit, Lives
<1>3. /\ log \in Seq(Events) /\ channel \in Seq(Events) /\ wire \in Seq(Events) /\ early \in Seq(Events)
      /\ Len(channel) <= ChannelSize /\ Len(wire) <= WireSize
  BY NoEvents, SizeAssumption DEF StreamInit
<1> QED BY <1>1, <1>2, <1>3, NothingRead DEF StreamInit, StreamTypes, Clients

LEMMA EventTyped ==
    ASSUME StreamTypes, NEW w \in Writers
    PROVE  /\ w[2] \in Records
           /\ LastID \in Nat
           /\ Event(w[2], writing[w], LastID + 1) \in Events
<1>1. w[2] \in Records
  BY RecordsAssumption DEF Writers
<1>2. writing[w] \in Versions /\ Len(log) \in Nat
  BY LenProperties DEF StreamTypes
<1> QED BY <1>1, <1>2 DEF Event, Events, LastID

LEMMA WriterTypes ==
    ASSUME StreamTypes, NEW w \in Writers, Store(w) \/ Publish(w)
    PROVE  StreamTypes'
<1>1. CASE Store(w)
  <2>1. w[2] \in Records /\ store[w[2]] \in Versions
    BY EventTyped DEF StreamTypes
  <2>2. store[w[2]] + 1 \in Versions
    BY <1>1, <2>1, StreamBounds DEF Store, Versions
  <2>3. store' \in [Records -> Versions] /\ writing' \in [Writers -> Versions]
    BY <1>1, <2>1, <2>2 DEF Store, StreamTypes
  <2> QED BY <1>1, <2>3 DEF Store, StreamTypes, bus, app
<1>2. CASE Publish(w)
  <2>1. log' \in Seq(Events)
    BY <1>2, EventTyped, AppendProperties DEF Publish, StreamTypes
  <2>2. channel' \in Seq(Events) /\ Len(channel') <= ChannelSize /\ sub' \in BOOLEAN
    <3>1. channel \in Seq(Events) /\ Len(channel) \in Nat /\ Len(channel) <= ChannelSize /\ ChannelSize \in Nat
      BY LenProperties, SizeAssumption DEF StreamTypes
    <3>2. CASE channel' = channel
      BY <1>2, <3>1, <3>2 DEF Publish, StreamTypes
    <3>3. CASE Len(channel) < ChannelSize /\ channel' = Append(channel, Event(w[2], writing[w], LastID + 1))
      <4>1. channel' \in Seq(Events) /\ Len(channel') = Len(channel) + 1
        BY <3>1, <3>3, EventTyped, AppendProperties
      <4> QED BY <1>2, <3>1, <3>3, <4>1 DEF Publish, StreamTypes
    <3> QED BY <1>2, <3>2, <3>3 DEF Publish
  <2>3. writing' \in [Writers -> Versions]
    BY <1>2, StreamBounds DEF Publish, StreamTypes, Versions, Nothing
  <2> QED BY <1>2, <2>1, <2>2, <2>3 DEF Publish, StreamTypes, app
<1> QED BY <1>1, <1>2

LEMMA ConnectionTypes ==
    ASSUME StreamTypes, Forward \/ EndStream \/ Break \/ Restart
    PROVE  StreamTypes'
<1>1. CASE Forward
  <2>1. channel \in Seq(Events) /\ channel # <<>> /\ wire \in Seq(Events)
    BY <1>1 DEF Forward, StreamTypes
  <2>2. Head(channel) \in Events /\ channel' \in Seq(Events) /\ Len(channel') = Len(channel) - 1
    BY <1>1, <2>1, HeadTailProperties DEF Forward
  <2>3. wire' \in Seq(Events) /\ Len(wire') = Len(wire) + 1
    BY <1>1, <2>1, <2>2, AppendProperties DEF Forward
  <2>4. Len(wire) < WireSize /\ Len(channel) <= ChannelSize /\ Len(wire) \in Nat /\ Len(channel) \in Nat
    BY <1>1, <2>1, LenProperties DEF Forward, StreamTypes
  <2>5. Len(wire') <= WireSize /\ Len(channel') <= ChannelSize
    BY <2>2, <2>3, <2>4, SizeAssumption
  <2> QED BY <1>1, <2>2, <2>3, <2>5 DEF Forward, StreamTypes, app
<1>2. CASE EndStream
  BY <1>2 DEF EndStream, StreamTypes, app
<1>3. CASE Break
  <2>1. channel' \in Seq(Events) /\ Len(channel') <= ChannelSize /\ breaks' \in Nat
    BY <1>3, NoEvents, SizeAssumption DEF Break, StreamTypes
  <2> QED BY <1>3, <2>1 DEF Break, StreamTypes, app
<1>4. CASE Restart
  <2>1. life' \in Lives /\ life'.stream <= life'.daemon
    <3>1. life \in Lives /\ life.stream <= life.daemon /\ life' = [life EXCEPT !.daemon = @ + 1]
      BY <1>4 DEF Restart, StreamTypes
    <3> QED BY <3>1, NextLife
  <2>2. writing' \in [Writers -> Versions]
    BY <1>4, StreamBounds DEF Restart, Versions, Nothing
  <2>3. log' \in Seq(Events) /\ channel' \in Seq(Events) /\ Len(channel') <= ChannelSize
    BY <1>4, NoEvents, SizeAssumption DEF Restart
  <2>4. sub' \in BOOLEAN /\ ended' \in BOOLEAN
    BY <1>4 DEF Restart, Streaming, StreamTypes
  <2> QED BY <1>4, <2>1, <2>2, <2>3, <2>4 DEF Restart, StreamTypes, app
<1> QED BY <1>1, <1>2, <1>3, <1>4

LEMMA FailTypes ==
    ASSUME StreamTypes, NEW error \in BOOLEAN, Fail(error), breaks' \in Nat
    PROVE  StreamTypes'
<1>1. client' \in Clients /\ sub' \in BOOLEAN /\ ended' \in BOOLEAN /\ floor' \in Nat
  BY DEF Fail, Clients
<1>2. /\ channel' \in Seq(Events) /\ wire' \in Seq(Events) /\ early' \in Seq(Events)
      /\ Len(channel') <= ChannelSize /\ Len(wire') <= WireSize
  BY NoEvents, SizeAssumption DEF Fail
<1> QED BY <1>1, <1>2, NothingRead DEF Fail, StreamTypes

LEMMA ClientTypes ==
    ASSUME StreamTypes, ClientStep \/ TakeEvent \/ StreamEnds \/ Reload
    PROVE  StreamTypes'
<1> USE DEF Clients
<1>1. CASE Subscribe
  <2>1. life' \in Lives /\ life'.stream <= life'.daemon
    <3>1. life \in Lives /\ life.stream <= life.daemon /\ life' = [life EXCEPT !.stream = life.daemon]
      BY <1>1 DEF Subscribe, StreamTypes
    <3> QED BY <3>1, NextLife
  <2>2. /\ channel' \in Seq(Events) /\ wire' \in Seq(Events) /\ early' \in Seq(Events)
        /\ Len(channel') <= ChannelSize /\ Len(wire') <= WireSize
    BY <1>1, NoEvents, SizeAssumption DEF Subscribe
  <2> QED BY <1>1, <2>1, <2>2 DEF Subscribe, StreamTypes
<1>2. CASE BeginSnapshot
  <2>1. LastID \in Nat
    BY LenProperties DEF LastID, StreamTypes
  <2>2. store \in [Records -> Versions] /\ life.daemon \in Nat
    BY DEF StreamTypes, Lives
  <2>3. reading' \in [id : Nat, left : SUBSET Records, records : [Records -> Versions], life : Nat]
    BY <1>2, <2>1, <2>2 DEF BeginSnapshot
  <2> QED BY <1>2, <2>3 DEF BeginSnapshot, StreamTypes, bus
<1>3. ASSUME NEW r \in Records, ReadRecord(r) PROVE StreamTypes'
  <2>1. reading' \in [id : Nat, left : SUBSET Records, records : [Records -> Versions], life : Nat]
    BY <1>3 DEF ReadRecord, StreamTypes
  <2>2. client' \in Clients
    BY <1>3 DEF ReadRecord
  <2> QED BY <1>3, <2>1, <2>2 DEF ReadRecord, StreamTypes, bus
<1>4. CASE HandleSnapshot
  <2>2. view' \in [Records -> Versions]
    BY <1>4, AppliedType DEF HandleSnapshot, StreamTypes
  <2>3. floor' \in Nat
    BY <1>4 DEF HandleSnapshot, StreamTypes
  <2> QED BY <1>4, <2>2, <2>3, NoEvents, NothingRead DEF HandleSnapshot, StreamTypes, bus
<1>5. CASE SnapshotFails
  <2>1. Fail(TRUE) /\ breaks' \in Nat
    BY <1>5 DEF SnapshotFails, StreamTypes
  <2> QED BY <2>1, FailTypes
<1>6. CASE TakeEvent
  <2>1. wire \in Seq(Events) /\ wire # <<>> /\ Len(wire) \in Nat
    BY <1>6, LenProperties DEF TakeEvent, StreamTypes
  <2>2. Head(wire) \in Events /\ wire' \in Seq(Events) /\ Len(wire') = Len(wire) - 1
    BY <1>6, <2>1, HeadTailProperties DEF TakeEvent
  <2>3. taken' \in Nat
    BY <1>6, <2>2 DEF TakeEvent, Events
  <2>4. <<Head(wire)>> \in Seq(Events)
    BY <2>2
  <2>5. view' \in [Records -> Versions]
    <3>1. view \in [Records -> Versions] /\ floor \in Nat
      BY DEF StreamTypes
    <3>2. Applied(view, <<Head(wire)>>, floor) \in [Records -> Versions]
      BY <2>4, <3>1, AppliedType
    <3> QED BY <1>6, <3>1, <3>2 DEF TakeEvent
  <2>6. early' \in Seq(Events)
    <3>1. early \in Seq(Events)
      BY DEF StreamTypes
    <3>2. Append(early, Head(wire)) \in Seq(Events)
      BY <2>2, <3>1, AppendProperties
    <3> QED BY <1>6, <3>1, <3>2 DEF TakeEvent
  <2>7. Len(wire') <= WireSize
    BY <2>1, <2>2, SizeAssumption DEF StreamTypes
  <2> QED BY <1>6, <2>2, <2>3, <2>5, <2>6, <2>7 DEF TakeEvent, StreamTypes
<1>7. CASE StreamEnds
  <2>1. PICK error \in BOOLEAN : Fail(error)
    BY <1>7 DEF StreamEnds
  <2>2. breaks' \in Nat
    BY <1>7 DEF StreamEnds, StreamTypes
  <2> QED BY <2>1, <2>2, FailTypes
<1>8. CASE Reload
  <2>1. PICK error \in BOOLEAN : Fail(error)
    BY <1>8 DEF Reload
  <2>2. breaks' \in Nat
    BY <1>8 DEF Reload, StreamTypes
  <2> QED BY <2>1, <2>2, FailTypes
<1> QED BY <1>1, <1>2, <1>3, <1>4, <1>5, <1>6, <1>7, <1>8 DEF ClientStep

LEMMA TypesStep == StreamTypes /\ [StreamNext]_streamVars => StreamTypes'
<1> SUFFICES ASSUME StreamTypes, [StreamNext]_streamVars PROVE StreamTypes'
  OBVIOUS
<1>1. CASE UNCHANGED streamVars
  BY <1>1 DEF streamVars, bus, app, StreamTypes
<1> QED BY <1>1, WriterTypes, ConnectionTypes, ClientTypes DEF StreamNext

-----------------------------------------------------------------------------
LEMMA InitLog == StreamInit => LogHolds
<1> SUFFICES ASSUME StreamInit PROVE LogHolds
  OBVIOUS
<1>1. LastID = 0
  BY DEF StreamInit, LastID
<1>2. \A r \in Own : <<"own", r>> \in Writers
  BY DEF Own, Writers
<1> QED BY <1>1, <1>2 DEF StreamInit, LogHolds

(* A record that one thread of the daemon writes has one writer. *)
LEMMA OneWriter ==
    ASSUME NEW w \in Writers, w[2] \in Own
    PROVE  w = <<"own", w[2]>>
BY DEF Writers, Own

LEMMA StoreKeepsLog ==
    ASSUME StreamTypes, LogHolds, NEW w \in Writers, Store(w)
    PROVE  LogHolds'
<1>1. /\ w[2] \in Records /\ log' = log
      /\ store' = [store EXCEPT ![w[2]] = @ + 1] /\ writing' = [writing EXCEPT ![w] = store[w[2]] + 1]
      /\ store \in [Records -> Versions] /\ writing \in [Writers -> Versions] /\ log \in Seq(Events)
  BY EventTyped DEF Store, StreamTypes, bus
<1>2. \A r \in Records : store[r] \in Nat /\ store'[r] \in Nat /\ store[r] <= store'[r]
  BY <1>1, StreamBounds DEF Versions
<1>3. LastID' = LastID /\ LastID \in Nat /\ \A i \in 1 .. LastID : log[i].record \in Records /\ log[i].version \in Nat
  <2>1. \A i \in 1 .. LastID : log[i] \in Events
    BY <1>1, ElementOfSeq DEF LastID
  <2> QED BY <1>1, <2>1, LenProperties DEF LastID, Events, Versions
<1>4. \A i \in 1 .. LastID : log[i].record \in Own => log[i].version <= store'[log[i].record]
  <2> SUFFICES ASSUME NEW i \in 1 .. LastID, log[i].record \in Own
               PROVE  log[i].version <= store'[log[i].record]
    OBVIOUS
  <2>1. log[i].version <= store[log[i].record]
    BY DEF LogHolds
  <2> QED BY <1>2, <1>3, <2>1
<1>5. ASSUME NEW r \in Own, writing'[<<"own", r>>] # Nothing
      PROVE  writing'[<<"own", r>>] = store'[r]
  <2>1. r \in Records /\ <<"own", r>> \in Writers
    BY DEF Own, Writers
  <2>2. CASE w = <<"own", r>>
    BY <1>1, <2>1, <2>2
  <2>3. CASE w # <<"own", r>>
    <3>1. w[2] # r
      BY <1>5, <2>3, OneWriter
    <3>2. writing'[<<"own", r>>] = writing[<<"own", r>>] /\ store'[r] = store[r]
      BY <1>1, <2>1, <2>3, <3>1
    <3> QED BY <1>5, <3>2 DEF LogHolds
  <2> QED BY <2>2, <2>3
<1> QED BY <1>1, <1>3, <1>4, <1>5 DEF LogHolds

(* The event a writer publishes, and the log with it. *)
LEMMA Published ==
    ASSUME StreamTypes, NEW w \in Writers, Publish(w)
    PROVE  \E e \in Events :
             /\ e = Event(w[2], writing[w], LastID + 1)
             /\ LastID \in Nat /\ LastID' = LastID + 1
             /\ \A i \in 1 .. LastID : log'[i] = log[i] /\ log[i] \in Events
             /\ log'[LastID + 1] = e
<1>1. log \in Seq(Events) /\ log' = Append(log, Event(w[2], writing[w], LastID + 1))
  BY DEF Publish, StreamTypes
<1>2. LastID \in Nat /\ Event(w[2], writing[w], LastID + 1) \in Events
  BY EventTyped
<1>3. /\ Len(log') = Len(log) + 1 /\ \A i \in 1 .. Len(log) : log'[i] = log[i]
      /\ log'[Len(log) + 1] = Event(w[2], writing[w], LastID + 1)
  BY <1>1, <1>2, AppendProperties
<1>4. \A i \in 1 .. Len(log) : log[i] \in Events
  BY <1>1, ElementOfSeq
<1> QED BY <1>2, <1>3, <1>4 DEF LastID

LEMMA PublishKeepsLog ==
    ASSUME StreamTypes, LogHolds, NEW w \in Writers, Publish(w)
    PROVE  LogHolds'
<1>1. PICK e \in Events :
        /\ e = Event(w[2], writing[w], LastID + 1)
        /\ LastID \in Nat /\ LastID' = LastID + 1
        /\ \A i \in 1 .. LastID : log'[i] = log[i] /\ log[i] \in Events
        /\ log'[LastID + 1] = e
  BY Published
<1>2. PICK n \in Nat : n = LastID
  BY <1>1
<1>3. /\ w[2] \in Records /\ store' = store /\ writing' = [writing EXCEPT ![w] = Nothing] /\ writing[w] # Nothing
      /\ store \in [Records -> Versions] /\ writing \in [Writers -> Versions]
      /\ e.record = w[2] /\ e.version = writing[w] /\ e.id = n + 1
  BY <1>1, <1>2, EventTyped DEF Publish, StreamTypes, Event
<1>4. e.record \in Own => e.version = store[e.record]
  BY <1>3, OneWriter DEF LogHolds
<1>5. \A i \in 1 .. n : log[i].record \in Records /\ log[i].version \in Nat
  BY <1>1, <1>2 DEF Events, Versions
<1>6. \A i \in 1 .. n + 1 : log'[i].id = i
  BY <1>1, <1>2, <1>3 DEF LogHolds
<1>7. \A i \in 1 .. n + 1 : log'[i].record \in Own => log'[i].version <= store[log'[i].record]
  <2> SUFFICES ASSUME NEW i \in 1 .. n + 1, log'[i].record \in Own
               PROVE  log'[i].version <= store[log'[i].record]
    OBVIOUS
  <2>1. CASE i = n + 1
    BY <1>1, <1>2, <1>3, <1>4, <2>1 DEF Versions
  <2>2. CASE i \in 1 .. n
    BY <1>1, <1>2, <2>2 DEF LogHolds
  <2> QED BY <2>1, <2>2
<1>8. ASSUME NEW i \in 1 .. n + 1, NEW j \in 1 .. n + 1,
             i < j, log'[i].record = log'[j].record, log'[i].record \in Own
      PROVE  log'[i].version <= log'[j].version
  <2>1. i \in 1 .. n
    BY <1>8
  <2>2. CASE j = n + 1
    <3>1. log'[j] = e /\ log'[i] = log[i] /\ e.record \in Own
      BY <1>1, <1>2, <1>8, <2>1, <2>2
    <3>2. log[i].version <= store[e.record]
      BY <1>2, <1>8, <2>1, <3>1 DEF LogHolds
    <3> QED BY <1>4, <3>1, <3>2
  <2>3. CASE j \in 1 .. n
    BY <1>1, <1>2, <1>8, <2>1, <2>3 DEF LogHolds
  <2> QED BY <2>2, <2>3
<1>9. ASSUME NEW r \in Own, writing'[<<"own", r>>] # Nothing
      PROVE  writing'[<<"own", r>>] = store[r]
  <2>1. <<"own", r>> \in Writers
    BY DEF Own, Writers
  <2>2. writing'[<<"own", r>>] = writing[<<"own", r>>]
    BY <1>3, <1>9, <2>1
  <2> QED BY <1>9, <2>2 DEF LogHolds
<1> QED BY <1>1, <1>2, <1>3, <1>6, <1>7, <1>8, <1>9 DEF LogHolds

LEMMA LogStep == StreamTypes /\ LogHolds /\ [StreamNext]_streamVars => LogHolds'
<1> SUFFICES ASSUME StreamTypes, LogHolds, [StreamNext]_streamVars PROVE LogHolds'
  OBVIOUS
<1>1. CASE UNCHANGED <<store, writing, log>>
  BY <1>1 DEF LogHolds, LastID
<1>2. CASE Restart
  <2>1. LastID' = 0 /\ writing' = [w \in Writers |-> Nothing]
    BY <1>2 DEF Restart, LastID
  <2>2. \A r \in Own : <<"own", r>> \in Writers
    BY DEF Own, Writers
  <2> QED BY <2>1, <2>2 DEF LogHolds
<1>3. CASE \E w \in Writers : Store(w) \/ Publish(w)
  BY <1>3, StoreKeepsLog, PublishKeepsLog
<1>4. UNCHANGED <<store, writing, log>> \/ Restart \/ \E w \in Writers : Store(w) \/ Publish(w)
  BY DEF StreamNext, streamVars, bus, app, Forward, EndStream, Break, ClientStep, Subscribe, BeginSnapshot,
         ReadRecord, HandleSnapshot, SnapshotFails, TakeEvent, StreamEnds, Reload, Fail
<1> QED BY <1>1, <1>2, <1>3, <1>4

-----------------------------------------------------------------------------
(* How long each part of the stream is, and that events are events. *)
LEMMA Lengths ==
    ASSUME StreamTypes
    PROVE  /\ LastID \in Nat /\ Len(wire) \in Nat /\ Len(channel) \in Nat /\ Len(early) \in Nat
           /\ \A i \in 1 .. LastID : log[i].record \in Records /\ log[i].version \in Nat
<1>1. \A i \in 1 .. Len(log) : log[i] \in Events
  BY ElementOfSeq DEF StreamTypes
<1>2. \A i \in 1 .. Len(log) : log[i].record \in Records /\ log[i].version \in Nat
  BY <1>1 DEF Events, Versions
<1>3. Len(log) \in Nat /\ Len(wire) \in Nat /\ Len(channel) \in Nat /\ Len(early) \in Nat
  BY LenProperties DEF StreamTypes
<1> QED BY <1>2, <1>3 DEF LastID

(* What was published since changes nothing of what a client follows.       *)
LEMMA PublishKeepsPlace ==
    ASSUME StreamTypes, NEW w \in Writers, Publish(w), NEW n \in 0 .. LastID, Place(n)
    PROVE  n \in 0 .. LastID' /\ Place(n)'
<1>1. PICK e \in Events :
        /\ e = Event(w[2], writing[w], LastID + 1)
        /\ LastID \in Nat /\ LastID' = LastID + 1
        /\ \A i \in 1 .. LastID : log'[i] = log[i] /\ log[i] \in Events
        /\ log'[LastID + 1] = e
  BY Published
<1>2. PICK m \in Nat : m = LastID
  BY <1>1
<1>3. /\ UNCHANGED <<wire, client, reading, early, floor, taken, view>>
      /\ Len(wire) \in Nat /\ Len(channel) \in Nat /\ Len(early) \in Nat /\ channel \in Seq(Events)
      /\ reading.id \in Nat /\ floor \in Nat
  BY Lengths DEF Publish, app, StreamTypes
<1>4. Follows(n)'
  <2>1. n + Len(wire) + Len(channel) <= m /\ (sub => n + Len(wire) + Len(channel) = m)
    BY <1>2 DEF Place, Follows
  <2>2. \A k \in 1 .. Len(wire) : wire[k] = log'[n + k]
    <3> TAKE k \in 1 .. Len(wire)
    <3>1. n + k \in 1 .. m
      BY <1>2, <1>3, <2>1
    <3> QED BY <1>1, <1>2, <3>1 DEF Place, Follows
  <2>3. \A k \in 1 .. Len(channel) : channel[k] = log'[n + Len(wire) + k]
    <3> TAKE k \in 1 .. Len(channel)
    <3>1. n + Len(wire) + k \in 1 .. m
      BY <1>2, <1>3, <2>1
    <3> QED BY <1>1, <1>2, <3>1 DEF Place, Follows
  <2>4. CASE sub /\ Len(channel) < ChannelSize
    <3>1. channel' = Append(channel, e) /\ sub' = TRUE
      BY <1>1, <2>4 DEF Publish
    <3>2. /\ Len(channel') = Len(channel) + 1
          /\ \A k \in 1 .. Len(channel) : channel'[k] = channel[k]
          /\ channel'[Len(channel) + 1] = e
      BY <1>3, <3>1, AppendProperties
    <3>3. n + Len(wire) + (Len(channel) + 1) = m + 1
      BY <1>2, <1>3, <2>1, <2>4
    <3>4. \A k \in 1 .. Len(channel) + 1 : channel'[k] = log'[n + Len(wire) + k]
      <4> TAKE k \in 1 .. Len(channel) + 1
      <4>1. CASE k = Len(channel) + 1
        <5>1. n + Len(wire) + k = m + 1
          BY <3>3, <4>1
        <5>2. channel'[k] = e
          BY <3>2, <4>1
        <5> QED BY <1>1, <1>2, <5>1, <5>2
      <4>2. CASE k \in 1 .. Len(channel)
        BY <2>3, <3>2, <4>2
      <4> QED BY <1>3, <4>1, <4>2
    <3>5. n + Len(wire') + Len(channel') = LastID' /\ n + Len(wire') + Len(channel') <= LastID'
      BY <1>1, <1>2, <1>3, <3>2, <3>3
    <3>6. \A k \in 1 .. Len(channel') : channel'[k] = log'[n + Len(wire') + k]
      BY <1>3, <3>2, <3>4
    <3> QED BY <1>3, <2>2, <3>5, <3>6 DEF Follows
  <2>5. CASE ~(sub /\ Len(channel) < ChannelSize)
    <3>1. channel' = channel /\ sub' = FALSE
      BY <2>5 DEF Publish
    <3> QED BY <1>1, <1>2, <1>3, <2>1, <2>2, <2>3, <3>1 DEF Follows
  <2> QED BY <2>4, <2>5
<1>5. client \in {"early", "reading", "read"} => Holds(n)'
  <2> SUFFICES ASSUME client \in {"early", "reading", "read"} PROVE Holds(n)'
    OBVIOUS
  <2>1. Len(early) <= n /\ \A k \in 1 .. Len(early) : early[k] = log[n - Len(early) + k]
    BY DEF Place, Holds
  <2>2. \A k \in 1 .. Len(early) : n - Len(early) + k \in 1 .. m
    BY <1>2, <1>3, <2>1
  <2> QED BY <1>1, <1>2, <1>3, <2>1, <2>2 DEF Holds
<1>6. ASSUME NEW shows \in [Records -> Versions], NEW k \in 0 .. LastID, Has(shows, 1 .. k)
      PROVE  \A i \in 1 .. LastID' :
                i \in 1 .. k /\ log'[i].record \in Own => shows[log'[i].record] >= log'[i].version
  BY <1>1, <1>2, <1>6 DEF Has
<1>7. client \in {"reading", "read"} => (/\ n - Len(early) <= reading.id /\ reading.id <= LastID
                                         /\ Has(reading.records, 1 .. reading.id))'
  <2> SUFFICES ASSUME client \in {"reading", "read"}
               PROVE  (/\ n - Len(early) <= reading.id /\ reading.id <= LastID
                       /\ Has(reading.records, 1 .. reading.id))'
    OBVIOUS
  <2>1. n - Len(early) <= reading.id /\ reading.id <= m /\ Has(reading.records, 1 .. reading.id)
    BY <1>2 DEF Place
  <2>2. reading.records \in [Records -> Versions] /\ reading.id \in 0 .. LastID
    BY <1>2, <1>3, <2>1 DEF StreamTypes
  <2>3. \A i \in 1 .. LastID' : i \in 1 .. reading.id /\ log'[i].record \in Own
                                    => reading.records[log'[i].record] >= log'[i].version
    BY <1>6, <2>1, <2>2
  <2>4. Has(reading.records, 1 .. reading.id)'
    BY <1>3, <2>3 DEF Has
  <2> QED BY <1>1, <1>2, <1>3, <2>1, <2>4
<1>8. client = "live" => (floor <= LastID /\ Has(view, 1 .. floor) /\ Has(view, 1 .. n))'
  <2> SUFFICES ASSUME client = "live" PROVE (floor <= LastID /\ Has(view, 1 .. floor) /\ Has(view, 1 .. n))'
    OBVIOUS
  <2>1. floor <= m /\ Has(view, 1 .. floor) /\ Has(view, 1 .. n)
    BY <1>2 DEF Place
  <2>2. view \in [Records -> Versions] /\ floor \in 0 .. LastID
    BY <1>2, <1>3, <2>1 DEF StreamTypes
  <2>3. \A i \in 1 .. LastID' : i \in 1 .. floor /\ log'[i].record \in Own => view[log'[i].record] >= log'[i].version
    BY <1>6, <2>1, <2>2
  <2>4. \A i \in 1 .. LastID' : i \in 1 .. n /\ log'[i].record \in Own => view[log'[i].record] >= log'[i].version
    BY <1>6, <2>1, <2>2
  <2> QED BY <1>1, <1>2, <1>3, <2>1, <2>3, <2>4 DEF Has
<1>9. n \in 0 .. LastID' /\ (taken <= n)'
  BY <1>1, <1>2, <1>3 DEF Place
<1> QED BY <1>3, <1>4, <1>5, <1>7, <1>8, <1>9 DEF Place

(* The handler moves an event from the channel to the connection. *)
LEMMA ForwardKeepsPlace ==
    ASSUME StreamTypes, Forward, NEW n \in 0 .. LastID, Place(n)
    PROVE  n \in 0 .. LastID' /\ Place(n)'
<1>1. /\ UNCHANGED <<log, sub, client, reading, early, floor, taken, view>> /\ LastID' = LastID
      /\ channel # <<>> /\ channel \in Seq(Events) /\ wire \in Seq(Events)
      /\ wire' = Append(wire, Head(channel)) /\ channel' = Tail(channel)
      /\ Len(wire) \in Nat /\ Len(channel) \in Nat
  BY Lengths DEF Forward, app, StreamTypes, LastID
<1>2. PICK a \in Nat, b \in Nat : a = Len(wire) /\ b = Len(channel)
  BY <1>1
<1>3. /\ Head(channel) \in Events /\ Head(channel) = channel[1] /\ Len(channel') = b - 1
      /\ \A k \in 1 .. Len(channel') : channel'[k] = channel[k + 1]
  BY <1>1, <1>2, HeadTailProperties
<1>4. b \in Nat \ {0}
  BY <1>1, <1>2, EmptySeq
<1>5. /\ Len(wire') = a + 1 /\ wire'[a + 1] = channel[1]
      /\ \A k \in 1 .. a : wire'[k] = wire[k]
  BY <1>1, <1>2, <1>3, AppendProperties
<1>6. /\ n + a + b <= LastID /\ (sub => n + a + b = LastID)
      /\ \A k \in 1 .. a : wire[k] = log[n + k]
      /\ \A k \in 1 .. b : channel[k] = log[n + a + k]
  BY <1>2 DEF Place, Follows
<1>7. \A k \in 1 .. a + 1 : wire'[k] = log[n + k]
  <2> TAKE k \in 1 .. a + 1
  <2>1. CASE k = a + 1
    <3>1. n + a + 1 = n + k /\ 1 \in 1 .. b
      BY <1>4, <2>1
    <3>2. channel[1] = log[n + k]
      BY <1>6, <3>1
    <3> QED BY <1>5, <2>1, <3>2
  <2>2. CASE k \in 1 .. a
    BY <1>5, <1>6, <2>2
  <2> QED BY <2>1, <2>2
<1>8. \A k \in 1 .. b - 1 : channel'[k] = log[n + (a + 1) + k]
  <2> TAKE k \in 1 .. b - 1
  <2>1. k + 1 \in 1 .. b /\ n + a + (k + 1) = n + (a + 1) + k
    BY <1>4
  <2>2. channel[k + 1] = log[n + a + (k + 1)]
    BY <1>6, <2>1
  <2> QED BY <1>3, <2>1, <2>2
<1>9. n + (a + 1) + (b - 1) = n + a + b
  BY <1>4
<1>10. Follows(n)'
  BY <1>1, <1>3, <1>5, <1>6, <1>7, <1>8, <1>9 DEF Follows
<1> QED BY <1>1, <1>10 DEF Place, Holds, Has

(* The connection ends, or breaks: what is on its way stays. *)
LEMMA EndKeepsPlace ==
    ASSUME StreamTypes, EndStream \/ Break, NEW n \in 0 .. LastID, Place(n)
    PROVE  n \in 0 .. LastID' /\ Place(n)'
<1>1. UNCHANGED <<log, wire, client, reading, early, floor, taken, view>> /\ LastID' = LastID
  BY DEF EndStream, Break, app, LastID
<1>2. Follows(n)'
  <2>1. CASE EndStream
    BY <1>1, <2>1 DEF EndStream, Place, Follows
  <2>2. CASE Break
    <3>1. channel' = <<>> /\ sub' = FALSE /\ Len(<<>>) = 0
      BY <2>2, NoEvents DEF Break
    <3>2. n + Len(wire) + 0 <= LastID
      BY Lengths DEF Place, Follows
    <3> QED BY <1>1, <3>1, <3>2 DEF Place, Follows
  <2> QED BY <2>1, <2>2
<1> QED BY <1>1, <1>2 DEF Place, Holds, Has

(* A subscription starts behind the newest event. *)
LEMMA SubscribePlaces ==
    ASSUME StreamTypes, Subscribe
    PROVE  LastID \in 0 .. LastID' /\ (\E n \in 0 .. LastID' : Place(n)')
<1>1. /\ log' = log /\ LastID' = LastID /\ LastID \in Nat /\ client' = "early" /\ taken' = 0
      /\ channel' = <<>> /\ wire' = <<>> /\ early' = <<>> /\ Len(<<>>) = 0
  BY Lengths, NoEvents DEF Subscribe, LastID
<1>2. PICK n \in Nat : n = LastID
  BY <1>1
<1>3. n + 0 + 0 = n /\ 0 <= n
  OBVIOUS
<1>4. Follows(n)'
  BY <1>1, <1>2, <1>3 DEF Follows
<1>5. Holds(n)'
  BY <1>1, <1>3 DEF Holds
<1>6. Place(n)'
  BY <1>1, <1>3, <1>4, <1>5 DEF Place
<1> QED BY <1>1, <1>2, <1>6

(* The snapshot takes the newest event's ID, then what is stored. *)
LEMMA SnapshotKeepsPlace ==
    ASSUME StreamTypes, LogHolds, NEW n \in 0 .. LastID, Place(n),
           BeginSnapshot \/ \E r \in Records : ReadRecord(r)
    PROVE  n \in 0 .. LastID' /\ Place(n)'
<1>1. UNCHANGED <<store, log, wire, channel, sub, early, floor, taken, view>> /\ LastID' = LastID
  BY DEF BeginSnapshot, ReadRecord, bus, LastID
<1>2. client \in {"early", "reading"} /\ client' \in {"reading", "read"}
  BY DEF BeginSnapshot, ReadRecord
<1>3. Follows(n)' /\ Holds(n)'
  BY <1>1, <1>2 DEF Place, Follows, Holds
<1>4. /\ LastID \in Nat /\ Len(early) \in Nat
      /\ \A i \in 1 .. LastID : log[i].record \in Records /\ log[i].version \in Nat
  BY Lengths
<1>5. store \in [Records -> Versions] /\ \A r \in Records : store[r] \in Nat
  BY DEF StreamTypes, Versions
<1>6. CASE BeginSnapshot
  <2>1. reading'.id = LastID /\ reading'.records = store
    BY <1>6 DEF BeginSnapshot
  <2>2. Has(store, 1 .. LastID)
    BY <1>4, <1>5 DEF LogHolds, Has
  <2>3. n - Len(early) <= LastID /\ LastID <= LastID
    BY <1>4
  <2> QED BY <1>1, <1>2, <1>3, <2>1, <2>2, <2>3 DEF Place, Has
<1>7. ASSUME NEW r \in Records, ReadRecord(r) PROVE Place(n)'
  <2>1. client = "reading" /\ reading' = [reading EXCEPT !.left = @ \ {r}, !.records[r] = store[r]]
    BY <1>7 DEF ReadRecord
  <2>2. reading \in [id : Nat, left : SUBSET Records, records : [Records -> Versions], life : Nat]
    BY DEF StreamTypes
  <2>3. reading'.id = reading.id /\ reading'.records = [reading.records EXCEPT ![r] = store[r]]
    BY <2>1, <2>2
  <2>4. n - Len(early) <= reading.id /\ reading.id <= LastID /\ Has(reading.records, 1 .. reading.id)
    BY <2>1 DEF Place
  <2>5. Has(reading'.records, 1 .. reading.id)
    <3> SUFFICES ASSUME NEW i \in 1 .. LastID, i \in 1 .. reading.id, log[i].record \in Own
                 PROVE  reading'.records[log[i].record] >= log[i].version
      BY DEF Has
    <3>1. log[i].record \in Records /\ log[i].version \in Nat
      BY <1>4
    <3>2. reading.records[log[i].record] >= log[i].version
      BY <2>4 DEF Has
    <3>3. store[log[i].record] >= log[i].version
      BY <1>5, <3>1 DEF LogHolds
    <3>4. reading'.records[log[i].record] = IF log[i].record = r THEN store[r] ELSE reading.records[log[i].record]
      BY <2>2, <2>3, <3>1
    <3> QED BY <3>2, <3>3, <3>4
  <2> QED BY <1>1, <1>2, <1>3, <2>3, <2>4, <2>5 DEF Place, Has
<1> QED BY <1>1, <1>6, <1>7

(* Handling the snapshot: its records, then the events that came before it, *)
(* leave no event behind up to the last one taken.                          *)
LEMMA HandleKeepsPlace ==
    ASSUME StreamTypes, LogHolds, HandleSnapshot, NEW n \in 0 .. LastID, Place(n)
    PROVE  n \in 0 .. LastID' /\ Place(n)'
<1>1. /\ UNCHANGED <<log, wire, channel, sub, taken>> /\ LastID' = LastID
      /\ client = "read" /\ client' = "live" /\ floor' = reading.id
      /\ view' = Applied(reading.records, early, reading.id)
  BY DEF HandleSnapshot, bus, LastID
<1>2. /\ LastID \in Nat /\ Len(early) \in Nat /\ early \in Seq(Events) /\ DOMAIN early = 1 .. Len(early)
      /\ \A i \in 1 .. LastID : log[i].record \in Records /\ log[i].version \in Nat
      /\ reading.records \in [Records -> Versions] /\ reading.id \in Nat
  BY Lengths, LenProperties DEF StreamTypes
<1>3. PICK s \in Nat : s = n - Len(early)
  BY <1>1, <1>2 DEF Place, Holds
<1>4. /\ s <= reading.id /\ reading.id <= LastID /\ Has(reading.records, 1 .. reading.id)
      /\ \A k \in 1 .. Len(early) : early[k] = log[s + k]
  BY <1>1, <1>3 DEF Place, Holds
<1>5. \A k \in 1 .. Len(early) : s + k \in 1 .. n /\ s + k \in 1 .. LastID
  BY <1>2, <1>3
<1>6. \A r \in Records : Newer(r, early, reading.id) =
        {k \in 1 .. Len(early) : log[s + k].record = r /\ s + k > reading.id}
  <2> TAKE r \in Records
  <2>1. \A k \in 1 .. Len(early) : early[k].record = log[s + k].record /\ early[k].id = s + k
    BY <1>4, <1>5 DEF LogHolds
  <2> QED BY <1>2, <2>1 DEF Newer
<1>7. ASSUME NEW i \in 1 .. LastID, i <= reading.id \/ i <= n, log[i].record \in Own
      PROVE  view'[log[i].record] >= log[i].version
  <2>1. log[i].record \in Records /\ log[i].version \in Nat
    BY <1>2
  <2>2. PICK r \in Records : r = log[i].record
    BY <2>1
  <2>3. i > reading.id => i - s \in Newer(r, early, reading.id)
    <3> SUFFICES ASSUME i > reading.id PROVE i - s \in Newer(r, early, reading.id)
      OBVIOUS
    <3>1. i - s \in 1 .. Len(early) /\ s + (i - s) = i
      BY <1>2, <1>3, <1>4, <1>7
    <3> QED BY <1>6, <2>2, <3>1
  <2>4. CASE /\ Newer(r, early, reading.id) = {}
             /\ view'[r] = reading.records[r]
    <3>1. i <= reading.id
      BY <1>2, <2>3, <2>4
    <3>2. i \in 1 .. reading.id
      BY <1>2, <3>1
    <3> QED BY <1>4, <1>7, <2>2, <2>4, <3>2 DEF Has
  <2>5. ASSUME NEW m \in Newer(r, early, reading.id), \A j \in Newer(r, early, reading.id) : j <= m,
               view'[r] = early[m].version
        PROVE  view'[r] >= log[i].version
    <3>1. m \in 1 .. Len(early) /\ log[s + m].record = r /\ s + m > reading.id
      BY <1>6
    <3>2. s + m \in 1 .. LastID /\ view'[r] = log[s + m].version /\ log[s + m].version \in Nat
      BY <1>2, <1>4, <1>5, <2>5, <3>1
    <3>3. i <= s + m
      BY <1>2, <1>3, <1>7, <2>3, <2>5, <3>1
    <3>4. CASE i = s + m
      BY <3>2, <3>4
    <3>5. CASE i < s + m
      <4>1. log[i].version <= log[s + m].version
        BY <1>7, <2>2, <3>1, <3>2, <3>5 DEF LogHolds
      <4> QED BY <2>1, <3>2, <4>1
    <3>6. i = s + m \/ i < s + m
      BY <1>2, <3>2, <3>3
    <3> QED BY <3>4, <3>5, <3>6
  <2>6. \/ Newer(r, early, reading.id) = {} /\ view'[r] = reading.records[r]
        \/ \E m \in Newer(r, early, reading.id) :
              /\ \A j \in Newer(r, early, reading.id) : j <= m
              /\ view'[r] = early[m].version
    BY <1>1, <1>2, AppliedLast
  <2> QED BY <2>2, <2>4, <2>5, <2>6
<1>8. Has(view, 1 .. floor)' /\ Has(view, 1 .. n)'
  <2>1. \A i \in 1 .. LastID : i \in 1 .. reading.id /\ log[i].record \in Own => view'[log[i].record] >= log[i].version
    BY <1>2, <1>7
  <2>2. \A i \in 1 .. LastID : i \in 1 .. n /\ log[i].record \in Own => view'[log[i].record] >= log[i].version
    BY <1>2, <1>7
  <2> QED BY <1>1, <2>1, <2>2 DEF Has
<1>9. Follows(n)'
  BY <1>1 DEF Place, Follows
<1> QED BY <1>1, <1>4, <1>8, <1>9 DEF Place

(* The client takes the next event, keeps it or applies it. *)
LEMMA TakeKeepsPlace ==
    ASSUME StreamTypes, LogHolds, TakeEvent, NEW n \in 0 .. LastID, Place(n)
    PROVE  n + 1 \in 0 .. LastID' /\ Place(n + 1)'
<1>1. /\ UNCHANGED <<log, channel, sub, client, reading, floor>> /\ LastID' = LastID
      /\ wire # <<>> /\ wire \in Seq(Events) /\ early \in Seq(Events)
      /\ wire' = Tail(wire) /\ taken' = Head(wire).id
      /\ client \in {"early", "reading", "read", "live"}
      /\ reading.id \in Nat /\ floor \in Nat
  BY DEF TakeEvent, StreamTypes, LastID
<1>2. /\ LastID \in Nat /\ Len(wire) \in Nat /\ Len(channel) \in Nat /\ Len(early) \in Nat
      /\ \A i \in 1 .. LastID : log[i].record \in Records /\ log[i].version \in Nat
  BY Lengths
<1>3. PICK a \in Nat, b \in Nat : a = Len(wire) /\ b = Len(channel)
  BY <1>2
<1>4. a \in Nat \ {0}
  BY <1>1, <1>3, EmptySeq
<1>5. /\ Head(wire) = wire[1] /\ Head(wire) \in Events /\ Len(wire') = a - 1
      /\ \A k \in 1 .. Len(wire') : wire'[k] = wire[k + 1]
  BY <1>1, <1>3, HeadTailProperties
<1>6. /\ n + a + b <= LastID /\ (sub => n + a + b = LastID)
      /\ \A k \in 1 .. a : wire[k] = log[n + k]
      /\ \A k \in 1 .. b : channel[k] = log[n + a + k]
  BY <1>3 DEF Place, Follows
<1>7. n + 1 \in 1 .. LastID /\ Head(wire) = log[n + 1] /\ Head(wire).id = n + 1
  <2>1. n + 1 \in 1 .. LastID /\ 1 \in 1 .. a
    BY <1>2, <1>4, <1>6
  <2> QED BY <1>5, <1>6, <2>1 DEF LogHolds
<1>8. Follows(n + 1)'
  <2>1. \A k \in 1 .. a - 1 : wire'[k] = log[(n + 1) + k]
    <3> TAKE k \in 1 .. a - 1
    <3>1. k + 1 \in 1 .. a /\ n + (k + 1) = (n + 1) + k
      BY <1>4
    <3>2. wire[k + 1] = log[n + (k + 1)]
      BY <1>6, <3>1
    <3> QED BY <1>5, <3>1, <3>2
  <2>2. (n + 1) + (a - 1) + b = n + a + b /\ \A k \in 1 .. b : (n + 1) + (a - 1) + k = n + a + k
    BY <1>4
  <2> QED BY <1>1, <1>3, <1>5, <1>6, <2>1, <2>2 DEF Follows
<1>9. (taken <= n + 1)' /\ n + 1 \in 0 .. LastID'
  BY <1>1, <1>2, <1>7
<1>10. CASE client # "live"
  <2>1. early' = Append(early, log[n + 1]) /\ client \in {"early", "reading", "read"} /\ log[n + 1] \in Events
    BY <1>1, <1>5, <1>7, <1>10 DEF TakeEvent
  <2>2. PICK c \in Nat : c = Len(early)
    BY <1>2
  <2>3. /\ Len(early') = c + 1 /\ early'[c + 1] = log[n + 1]
        /\ \A k \in 1 .. c : early'[k] = early[k]
    BY <1>1, <2>1, <2>2, AppendProperties
  <2>4. c <= n /\ \A k \in 1 .. c : early[k] = log[n - c + k]
    BY <2>1, <2>2 DEF Place, Holds
  <2>5. \A k \in 1 .. c + 1 : early'[k] = log[(n + 1) - (c + 1) + k]
    <3> TAKE k \in 1 .. c + 1
    <3>1. CASE k = c + 1
      <4>1. (n + 1) - (c + 1) + k = n + 1
        BY <3>1
      <4> QED BY <2>3, <3>1, <4>1
    <3>2. CASE k \in 1 .. c
      <4>1. (n + 1) - (c + 1) + k = n - c + k
        OBVIOUS
      <4> QED BY <2>3, <2>4, <3>2, <4>1
    <3> QED BY <3>1, <3>2
  <2>6. c + 1 <= n + 1 /\ (n + 1) - (c + 1) = n - c
    BY <2>4
  <2>7. Holds(n + 1)'
    BY <1>1, <2>3, <2>5, <2>6 DEF Holds
  <2>8. client \in {"reading", "read"} =>
          n - c <= reading.id /\ reading.id <= LastID /\ Has(reading.records, 1 .. reading.id)
    BY <2>2 DEF Place
  <2>9. (n + 1) - Len(early') = n - c
    BY <2>3, <2>6
  <2> QED BY <1>1, <1>8, <1>9, <1>10, <2>7, <2>8, <2>9 DEF Place, Has
<1>11. CASE client = "live"
  <2>1. view' = Applied(view, <<log[n + 1]>>, floor)
    BY <1>7, <1>11 DEF TakeEvent
  <2>2. /\ floor <= LastID /\ Has(view, 1 .. floor) /\ Has(view, 1 .. n)
        /\ view \in [Records -> Versions] /\ log[n + 1] \in Events
    BY <1>5, <1>7, <1>11 DEF Place, StreamTypes
  <2>3. PICK one \in Seq(Events) : one = <<log[n + 1]>> /\ DOMAIN one = {1} /\ one[1] = log[n + 1]
    <3>1. <<log[n + 1]>> \in Seq(Events)
      BY <2>2
    <3>2. DOMAIN <<log[n + 1]>> = {1} /\ <<log[n + 1]>>[1] = log[n + 1]
      OBVIOUS
    <3> QED BY <3>1, <3>2
  <2>4. ASSUME NEW i \in 1 .. LastID, i <= floor \/ i <= n + 1, log[i].record \in Own
        PROVE  view'[log[i].record] >= log[i].version
    <3>1. log[i].record \in Records /\ log[i].version \in Nat
      BY <1>2
    <3>2. PICK r \in Records : r = log[i].record
      BY <3>1
    <3>3. Newer(r, one, floor) = IF log[n + 1].record = r /\ n + 1 > floor THEN {1} ELSE {}
      BY <1>7, <2>3 DEF Newer
    <3>4. CASE log[n + 1].record = r /\ n + 1 > floor
      <4>1. view'[r] = log[n + 1].version
        <5>1. Newer(r, one, floor) = {1}
          BY <3>3, <3>4
        <5>2. \/ /\ Newer(r, one, floor) = {}
                 /\ Applied(view, one, floor)[r] = view[r]
              \/ \E m \in Newer(r, one, floor) :
                    /\ \A j \in Newer(r, one, floor) : j <= m
                    /\ Applied(view, one, floor)[r] = one[m].version
          BY <1>1, <2>2, <2>3, AppliedLast
        <5>3. Applied(view, one, floor)[r] = one[1].version
          BY <5>1, <5>2
        <5> QED BY <2>1, <2>3, <5>3
      <4>2. CASE i = n + 1
        BY <3>1, <3>2, <4>1, <4>2
      <4>3. CASE i < n + 1
        <5>1. log[i].version <= log[n + 1].version
          BY <1>7, <2>4, <3>2, <3>4, <4>3 DEF LogHolds
        <5> QED BY <1>2, <1>7, <3>1, <3>2, <4>1, <5>1
      <4>4. i <= n + 1
        BY <1>1, <2>4, <3>4
      <4> QED BY <4>2, <4>3, <4>4
    <3>5. CASE ~(log[n + 1].record = r /\ n + 1 > floor)
      <4>1. view'[r] = view[r]
        BY <1>1, <2>1, <2>2, <2>3, <3>3, <3>5, AppliedLast
      <4>2. i \in 1 .. floor \/ i \in 1 .. n
        BY <1>1, <2>4, <3>2, <3>5
      <4> QED BY <2>2, <2>4, <3>2, <4>1, <4>2 DEF Has
    <3> QED BY <3>4, <3>5
  <2>5. \A i \in 1 .. LastID : i \in 1 .. floor /\ log[i].record \in Own => view'[log[i].record] >= log[i].version
    BY <1>1, <2>4
  <2>6. \A i \in 1 .. LastID : i \in 1 .. n + 1 /\ log[i].record \in Own => view'[log[i].record] >= log[i].version
    BY <2>4
  <2> QED BY <1>1, <1>8, <1>9, <1>11, <2>2, <2>5, <2>6 DEF Place, Has
<1> QED BY <1>9, <1>10, <1>11

-----------------------------------------------------------------------------
LEMMA StreamInvInit == StreamInit => StreamInv
<1> SUFFICES ASSUME StreamInit PROVE StreamInv
  OBVIOUS
<1>1. ~Following
  BY DEF StreamInit, Following
<1> QED BY <1>1, InitTypes, InitLog DEF StreamInv

LEMMA PlaceStep ==
    ASSUME StreamInv, [StreamNext]_streamVars, Following'
    PROVE  (\E n \in 0 .. LastID : Place(n))'
<1>1. StreamTypes /\ LogHolds
  BY DEF StreamInv
<1>2. CASE Subscribe
  BY <1>1, <1>2, SubscribePlaces
<1>3. CASE ~Subscribe /\ ~Restart
  <2>1. Following
    <3>1. life' = life /\ (client' = client \/ client \in {"early", "reading", "read", "live"})
      BY <1>3 DEF StreamNext, streamVars, bus, app, Store, Publish, Forward, EndStream, Break, ClientStep, BeginSnapshot,
                  ReadRecord, HandleSnapshot, SnapshotFails, TakeEvent, StreamEnds, Reload, Fail, Following
    <3> QED BY <3>1 DEF Following
  <2>2. PICK n \in 0 .. LastID : Place(n)
    BY <2>1 DEF StreamInv
  <2>3. CASE UNCHANGED <<bus, app>>
    <3>1. UNCHANGED <<log, sub, channel, wire, client, reading, early, floor, taken, view>> /\ LastID' = LastID
      BY <2>3 DEF bus, app, LastID
    <3> QED BY <2>2, <3>1 DEF Place, Follows, Holds, Has
  <2>4. CASE \E w \in Writers : Publish(w)
    BY <1>1, <2>2, <2>4, PublishKeepsPlace
  <2>5. CASE Forward
    BY <1>1, <2>2, <2>5, ForwardKeepsPlace
  <2>6. CASE EndStream \/ Break
    BY <1>1, <2>2, <2>6, EndKeepsPlace
  <2>7. CASE BeginSnapshot \/ \E r \in Records : ReadRecord(r)
    BY <1>1, <2>2, <2>7, SnapshotKeepsPlace
  <2>8. CASE HandleSnapshot
    BY <1>1, <2>2, <2>8, HandleKeepsPlace
  <2>9. CASE TakeEvent
    BY <1>1, <2>2, <2>9, TakeKeepsPlace
  <2>10. CASE SnapshotFails \/ StreamEnds \/ Reload
    BY <2>10 DEF SnapshotFails, StreamEnds, Reload, Fail, Following
  <2>11. (\E w \in Writers : Store(w)) => UNCHANGED <<bus, app>>
    BY DEF Store
  <2>12. UNCHANGED streamVars => UNCHANGED <<bus, app>>
    BY DEF streamVars
  <2> QED
    BY <1>3, <2>3, <2>4, <2>5, <2>6, <2>7, <2>8, <2>9, <2>10, <2>11, <2>12 DEF StreamNext, ClientStep
<1>4. CASE Restart
  <2>1. life \in Lives /\ life.stream <= life.daemon /\ life' = [life EXCEPT !.daemon = @ + 1]
    BY <1>1, <1>4 DEF Restart, StreamTypes
  <2>2. life'.stream = life.stream /\ life'.daemon = life.daemon + 1
    BY <2>1, NextLife
  <2>3. life.stream # life.daemon + 1
    BY <2>1, NextLife DEF Lives
  <2> QED BY <2>2, <2>3 DEF Following
<1> QED BY <1>2, <1>3, <1>4

LEMMA StreamInvStep == StreamInv /\ [StreamNext]_streamVars => StreamInv'
<1> SUFFICES ASSUME StreamInv, [StreamNext]_streamVars PROVE StreamInv'
  OBVIOUS
<1>1. StreamTypes' /\ LogHolds'
  BY TypesStep, LogStep DEF StreamInv
<1>2. Following' => (\E n \in 0 .. LastID : Place(n))'
  BY PlaceStep
<1> QED BY <1>1, <1>2 DEF StreamInv

(* The events a client gets are the bus's, in their order and without a gap, *)
(* and those up to where it stands show.                                     *)
THEOREM StreamKept == StreamSpec => []StreamInv
BY StreamInvInit, StreamInvStep, PTL DEF StreamSpec

(* Every variable keeps its type, and no buffer holds more than it may. *)
THEOREM StreamTypeCorrect == StreamSpec => []StreamTypeOK
<1>1. StreamInv => StreamTypeOK
  BY DEF StreamInv, StreamTypes, StreamTypeOK
<1> QED BY <1>1, StreamKept, PTL

(* What the terminal shows has every event up to the snapshot's ID and up   *)
(* to the last one taken.                                                   *)
THEOREM ViewComplete == StreamSpec => []ViewHasAll
<1>1. StreamInv => ViewHasAll
  <2> SUFFICES ASSUME StreamInv, client = "live", life.stream = life.daemon,
                      NEW i \in 1 .. LastID, log[i].record \in Own, i <= floor \/ i <= taken
               PROVE  view[log[i].record] >= log[i].version
    BY DEF ViewHasAll
  <2>1. StreamTypes /\ Following
    BY DEF StreamInv, Following
  <2>2. PICK n \in 0 .. LastID : Place(n)
    BY <2>1 DEF StreamInv
  <2>3. taken <= n /\ Has(view, 1 .. floor) /\ Has(view, 1 .. n)
    BY <2>2 DEF Place
  <2>4. i \in 1 .. floor \/ i \in 1 .. n
    <3>1. floor \in Nat /\ taken \in Nat /\ LastID \in Nat
      BY <2>1, Lengths DEF StreamTypes
    <3> QED BY <2>3, <3>1
  <2> QED BY <2>3, <2>4 DEF Has
<1> QED BY <1>1, StreamKept, PTL
=============================================================================
