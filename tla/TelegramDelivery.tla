-------------------------- MODULE TelegramDelivery --------------------------
(***************************************************************************)
(* The deliveries of runs and notices to Telegram chats (clients/telegram  *)
(* with the daemon's client deliveries): the bot polls the pending ones,   *)
(* shows a run's replies while it works, and acknowledges a delivery once  *)
(* its run has ended and everything is shown.                              *)
(*                                                                         *)
(* Calls of Telegram and of the daemon may fail, with or without having    *)
(* taken effect; the bot may stop or crash, and edits after its restart    *)
(* what it remembers to have sent.  A pass over the deliveries holds a     *)
(* lock, so passes of the polling loop and of a user's request exclude     *)
(* each other.                                                             *)
(*                                                                         *)
(* A reply grows until it is whole.  Left out: inline and guest targets,   *)
(* documents, voice and engine notes, which are sent like a notice or a    *)
(* run's end; the status message; messages a user deletes.                 *)
(***************************************************************************)
EXTENDS Naturals, Sequences, FiniteSets

CONSTANTS Runs, Notices,  \* the deliveries, by age: of a run's replies, of a text
          Chats,          \* the deliveries of each chat
          Flooded,        \* the chats that may refuse again and again
          PassLimit,      \* the deliveries a pass lists
          FirstLoad,      \* runMessagesFirstLoad
          MaxReplies,     \* bound: replies of a run
          MaxFaults       \* bound: calls that fail outside the flooded chats, with
                          \* or without effect, and stops and crashes of the bot

Deliveries == Runs \union Notices

ASSUME DeliveriesAssumption == Deliveries \subseteq Nat \ {0} /\ Runs \intersect Notices = {} /\ IsFiniteSet(Deliveries)
ASSUME ChatsAssumption == UNION Chats = Deliveries /\ \A c, d \in Chats : c = d \/ c \intersect d = {}
ASSUME LimitAssumption == PassLimit \in Nat \ {0} /\ FirstLoad \in Nat \ {0}
ASSUME BoundAssumption == {MaxReplies, MaxFaults} \subseteq Nat

VARIABLES
    status,    \* of each run
    reply,     \* each run's replies, each a part or whole
    asked,     \* the runs that asked for an approval
    delivery,  \* the status of each delivery
    chat,      \* what the chats show: the messages for each item of a delivery
    pc, at,    \* where the bot's pass stands, and the delivery it serves
    left,      \* the listed deliveries it has not served yet
    seen,      \* the status it read of the run
    mem,       \* each run's render state
    receipts,  \* the sent deliveries whose acknowledgement failed
    waiting,   \* the chats with a retry deadline
    file,      \* what the state file says was sent
    errors,    \* the calls that failed
    again      \* the calls left unanswered and the restarts: what is sent may be sent again

core  == <<status, reply, asked>>
bot   == <<pc, at, left, seen, mem, receipts, waiting>>
count == <<errors, again>>
vars  == <<core, delivery, chat, bot, file, count>>

-----------------------------------------------------------------------------
(* What a delivery shows: a run's replies, its approval request and, of one *)
(* that did not complete, its end; or a notice.                             *)
Replies == 1 .. MaxReplies
Ask     == MaxReplies + 1
End     == MaxReplies + 2
Notice  == MaxReplies + 3
Items   == Replies \union {Ask, End, Notice}

Ended  == {"completed", "failed", "canceled"}
ChatOf(d) == CHOOSE c \in Chats : d \in c

Unsent == [at |-> 0, text |-> 0]
Fresh  == [loaded |-> FALSE, cursor |-> 0, view |-> [i \in Replies |-> 0], sent |-> [i \in Items |-> Unsent]]

Init ==
    /\ status = [r \in Runs |-> "running"]
    /\ reply = [r \in Runs |-> <<>>]
    /\ asked = {}
    /\ delivery = [d \in Deliveries |-> "pending"]
    /\ chat = [d \in Deliveries |-> [i \in Items |-> <<>>]]
    /\ pc = "idle" /\ at = 0 /\ left = {} /\ seen = "none"
    /\ mem = [r \in Runs |-> Fresh]
    /\ receipts = {} /\ waiting = {}
    /\ file = [r \in Runs |-> Fresh.sent]
    /\ errors = 0 /\ again = 0

-----------------------------------------------------------------------------
(* The daemon's runs: replies come one after the other, each grows until it *)
(* is whole, and the last one is with the run's end.                        *)
Part  == 1
Whole == 2
Last(r) == Len(reply[r])
Open(r) == Last(r) # 0 /\ reply[r][Last(r)] = Part
Sealed(r) == [i \in 1 .. Last(r) |-> Whole]

Generate(r) ==
    /\ status[r] = "running"
    /\ \/ Open(r) /\ reply' = [reply EXCEPT ![r] = Sealed(r)]
       \/ ~Open(r) /\ Last(r) < MaxReplies /\ reply' = [reply EXCEPT ![r] = Append(@, Part)]
    /\ UNCHANGED <<status, asked, delivery, chat, bot, file, count>>

AskApproval(r) ==
    /\ status[r] = "running" /\ ~Open(r) /\ r \notin asked
    /\ status' = [status EXCEPT ![r] = "asking"]
    /\ asked' = asked \union {r}
    /\ UNCHANGED <<reply, delivery, chat, bot, file, count>>

Decide(r) ==
    /\ status[r] = "asking"
    /\ status' = [status EXCEPT ![r] = "running"]
    /\ UNCHANGED <<reply, asked, delivery, chat, bot, file, count>>

EndRun(r) ==
    /\ status[r] = "running"
    /\ \E s \in {"completed", "failed"} : status' = [status EXCEPT ![r] = s]
    /\ reply' = [reply EXCEPT ![r] = Sealed(r)]
    /\ UNCHANGED <<asked, delivery, chat, bot, file, count>>

(* A cancel ends the run first; its executor seals the reply after that. *)
CancelRun(r) ==
    /\ status[r] \in {"running", "asking"}
    /\ status' = [status EXCEPT ![r] = "canceled"]
    /\ UNCHANGED <<reply, asked, delivery, chat, bot, file, count>>

SealCanceled(r) ==
    /\ status[r] = "canceled" /\ Open(r)
    /\ reply' = [reply EXCEPT ![r] = Sealed(r)]
    /\ UNCHANGED <<status, asked, delivery, chat, bot, file, count>>

-----------------------------------------------------------------------------
(* A pass: the oldest pending deliveries, of all or of one run. *)
Pending == {d \in Deliveries : delivery[d] = "pending"}
Oldest(D) == {d \in D : Cardinality({e \in D : e < d}) < PassLimit}

DeliverPending(D) ==
    /\ pc = "idle" /\ pc' = "next"
    /\ left' = Oldest(Pending \intersect D)
    /\ UNCHANGED <<core, delivery, chat, at, seen, mem, receipts, waiting, file, count>>

Poll == DeliverPending(Deliveries)

(* A user's cancel shows the run's end at once. *)
DeliverPendingRun(r) == status[r] = "canceled" /\ r \in Pending /\ DeliverPending({r})

(* What is done with a delivery: one that was sent is only acknowledged. *)
Task_Sent(d) == IF d \in receipts THEN "next" ELSE IF d \in Notices THEN "notice" ELSE "run"
Task(d) == IF d \in receipts THEN "ack" ELSE IF d \in Notices THEN "notice" ELSE "run"

Take(d) == pc' = Task(d) /\ at' = (IF Task(d) = "next" THEN 0 ELSE d)
Skip    == UNCHANGED <<pc, at>>
Leave   == pc' = "next" /\ at' = 0 /\ seen' = "none"
GoTo(p) == pc' = p /\ UNCHANGED <<at, seen>>

First(S) == {x \in S : \A y \in S : x <= y}

NextDelivery ==
    /\ pc = "next"
    /\ \E d \in First(left) :
          /\ left' = left \ {d}
          /\ IF ChatOf(d) \in waiting THEN Skip ELSE Take(d)
    /\ UNCHANGED <<core, delivery, chat, seen, mem, receipts, waiting, file, count>>

(* saveRenderStates. *)
Saved == [r \in Runs |-> mem[r].sent]

EndPass ==
    /\ pc = "next" /\ left = {} /\ pc' = "idle"
    /\ file' = Saved
    /\ UNCHANGED <<core, delivery, chat, at, left, seen, mem, receipts, waiting, count>>

(* A delivery that failed is tried again after a while, with all others of  *)
(* its chat; one that was refused for good is given up.                     *)
Retry == waiting' = waiting \union {ChatOf(at)} /\ Leave

Deadline(c) ==
    /\ c \in waiting
    /\ waiting' = waiting \ {c}
    /\ UNCHANGED <<core, delivery, chat, pc, at, left, seen, mem, receipts, file, count>>

Fails == errors + again < MaxFaults /\ errors' = errors + 1
Doubt == errors + again < MaxFaults /\ again' = again + 1

Refuses == ChatOf(at) \in Flooded /\ UNCHANGED errors

-----------------------------------------------------------------------------
(* GetRun, then the messages: those above the cursor, which stays below the *)
(* last, the only one that may change.                                      *)
GetRun ==
    /\ pc = "run"
    /\ \/ seen' = status[at] /\ pc' = "load" /\ UNCHANGED <<at, waiting, errors>>
       \/ Fails /\ Retry
    /\ UNCHANGED <<core, delivery, chat, left, mem, receipts, file, again>>

Settled_WithLast(newest) == newest
Settled(newest) == IF newest = 0 THEN 0 ELSE newest - 1

From(r) == IF mem[r].loaded THEN mem[r].cursor ELSE IF Last(r) > FirstLoad THEN Last(r) - FirstLoad ELSE 0

Loaded(r) ==
    [mem[r] EXCEPT !.loaded = TRUE, !.cursor = Settled(Last(r)),
                   !.view = [i \in Replies |-> IF i \in From(r) + 1 .. Last(r) THEN reply[r][i] ELSE @[i]]]

RunMessages ==
    /\ pc = "load"
    /\ \/ mem' = [mem EXCEPT ![at] = Loaded(at)] /\ GoTo("show") /\ UNCHANGED <<waiting, errors>>
       \/ Fails /\ Retry /\ UNCHANGED mem
    /\ UNCHANGED <<core, delivery, chat, left, receipts, file, again>>

(* What is still to be shown, in order: the newest reply of a run at work   *)
(* comes last and only as far as it is.                                     *)
Wanted(i)  == IF i \in Replies THEN mem[at].view[i] ELSE Whole
Missing(I) == {i \in I : mem[at].sent[i].text # Wanted(i)}
Viewed     == {i \in Replies : mem[at].view[i] # 0}
Newest     == {i \in Viewed : \A j \in Viewed : j <= i}
Requests   == IF status[at] = "asking" THEN {Ask} ELSE {}

Due == CASE seen = "running"   -> Viewed \ Newest
         [] seen = "asking"    -> Viewed \union Requests
         [] seen = "completed" -> Viewed
         [] OTHER              -> Viewed \union {End}

Preview == seen = "running" /\ Missing(Due) = {}
ToShow  == IF Preview THEN Missing(Newest) ELSE Missing(Due)

(* A message the bot knows of is edited, or else sent. *)
Shown(i, k, text) == [chat EXCEPT ![at][i] = IF k = 0 THEN Append(@, text) ELSE [@ EXCEPT ![k] = text]]

Send(i) ==
    LET k == mem[at].sent[i].at IN
    /\ chat' = Shown(i, k, Wanted(i))
    /\ \/ /\ mem' = [mem EXCEPT ![at].sent[i] = [at |-> IF k = 0 THEN Len(chat[at][i]) + 1 ELSE k, text |-> Wanted(i)]]
          /\ GoTo("show") /\ UNCHANGED <<waiting, again>>
       \/ Doubt /\ Retry /\ UNCHANGED mem

Show ==
    /\ pc = "show" /\ ToShow # {}
    /\ \/ \E i \in First(ToShow) : Send(i) /\ UNCHANGED <<delivery, errors>>
       \/ (Refuses \/ Fails) /\ Retry /\ UNCHANGED <<delivery, chat, mem, again>>
       \/ Fails /\ ~Preview /\ Leave /\ delivery' = [delivery EXCEPT ![at] = "failed"]
          /\ UNCHANGED <<chat, mem, waiting, again>>
    /\ UNCHANGED <<core, left, receipts, file>>

AllShown ==
    /\ pc = "show" /\ (Preview \/ ToShow = {})
    /\ IF seen \in Ended THEN GoTo("ack") ELSE Leave
    /\ UNCHANGED <<core, delivery, chat, left, mem, receipts, waiting, file, count>>

(* deliverNotice: nothing is remembered of a notice but its receipt. *)
SendNotice ==
    /\ pc = "notice"
    /\ \/ /\ chat' = Shown(Notice, 0, Whole)
          /\ \/ GoTo("ack") /\ UNCHANGED <<waiting, again>>
             \/ Doubt /\ Retry
          /\ UNCHANGED <<delivery, errors>>
       \/ (Refuses \/ Fails) /\ Retry /\ UNCHANGED <<delivery, chat, again>>
       \/ Fails /\ Leave /\ delivery' = [delivery EXCEPT ![at] = "failed"] /\ UNCHANGED <<chat, waiting, again>>
    /\ UNCHANGED <<core, left, mem, receipts, file>>

(* acknowledgeSentDelivery: the receipt stays until the daemon has answered, *)
(* and the run's render state is cleared then.                               *)
Sent(d) == [delivery EXCEPT ![d] = "sent"]

Answered ==
    /\ delivery' = Sent(at)
    /\ receipts' = receipts \ {at}
    /\ mem' = [r \in Runs |-> IF r = at THEN Fresh ELSE mem[r]]
    /\ Leave /\ UNCHANGED <<waiting, errors>>

Acknowledge_WithoutReceipt ==
    /\ pc = "ack"
    /\ \/ Answered
       \/ Fails /\ Retry /\ delivery' \in {delivery, Sent(at)} /\ UNCHANGED <<receipts, mem>>
    /\ UNCHANGED <<core, chat, left, file, again>>

Acknowledge ==
    /\ pc = "ack"
    /\ \/ Answered
       \/ Fails /\ Retry /\ delivery' \in {delivery, Sent(at)} /\ receipts' = receipts \union {at} /\ UNCHANGED mem
    /\ UNCHANGED <<core, chat, left, file, again>>

-----------------------------------------------------------------------------
(* A stopped bot saves what it sent, a crashed one does not; both forget    *)
(* receipts and deadlines.                                                  *)
Stop ==
    /\ pc # "down" /\ Doubt
    /\ pc' = "down" /\ at' = 0 /\ seen' = "none"
    /\ left' = {} /\ receipts' = {} /\ waiting' = {}
    /\ mem' = [r \in Runs |-> Fresh]
    /\ file' \in {file, Saved}
    /\ UNCHANGED <<core, delivery, chat, errors>>

Start ==
    /\ pc = "down" /\ pc' = "idle"
    /\ mem' = [r \in Runs |-> [Fresh EXCEPT !.sent = file[r]]]
    /\ UNCHANGED <<core, delivery, chat, at, left, seen, receipts, waiting, file, count>>

Pass == NextDelivery \/ GetRun \/ RunMessages \/ Show \/ AllShown \/ SendNotice \/ Acknowledge \/ EndPass

Next ==
    \/ Poll \/ Pass \/ Stop \/ Start
    \/ \E r \in Runs : \/ Generate(r) \/ AskApproval(r) \/ Decide(r) \/ EndRun(r) \/ CancelRun(r) \/ SealCanceled(r)
                       \/ DeliverPendingRun(r)
    \/ \E c \in Chats : Deadline(c)

Spec == Init /\ [][Next]_vars

(* The bot goes on and time passes; a run need not end and a user need not  *)
(* ask for anything.                                                        *)
Fairness ==
    /\ SF_vars(Poll) /\ WF_vars(Pass) /\ WF_vars(Start)
    /\ \A c \in Chats : WF_vars(Deadline(c))

FairSpec == Spec /\ Fairness
-----------------------------------------------------------------------------
Texts == {Part, Whole}
Sends == [at : Nat, text : {0} \union Texts]
Mems  == [loaded : BOOLEAN, cursor : Nat, view : [Replies -> {0} \union Texts], sent : [Items -> Sends]]

(* Every variable holds what the code may store in it. *)
TypeOK ==
    /\ status \in [Runs -> {"running", "asking"} \union Ended]
    /\ reply \in [Runs -> Seq(Texts)]
    /\ asked \subseteq Runs
    /\ delivery \in [Deliveries -> {"pending", "sent", "failed"}]
    /\ chat \in [Deliveries -> [Items -> Seq(Texts)]]
    /\ pc \in {"idle", "next", "run", "load", "show", "notice", "ack", "down"}
    /\ at \in Deliveries \union {0} /\ left \subseteq Deliveries
    /\ seen \in {"none", "running", "asking"} \union Ended
    /\ mem \in [Runs -> Mems] /\ file \in [Runs -> [Items -> Sends]]
    /\ receipts \subseteq Deliveries /\ waiting \subseteq Chats
    /\ errors \in Nat /\ again \in Nat

ShowsReplies(r) ==
    \A i \in 1 .. Last(r) : chat[r][i] # <<>> /\ chat[r][i][Len(chat[r][i])] = reply[r][i]

(* The delivery of a run that completed or failed is acknowledged only when *)
(* its chat shows every reply as it ended up: the cursor of runMessages     *)
(* passes nothing that may change, and the status is read before them.      *)
AcknowledgedIsShown ==
    \A r \in Runs : delivery[r] = "sent" /\ status[r] \in {"completed", "failed"} => ShowsReplies(r)

(* Whatever fails and is tried again, a message is sent once, and once more *)
(* at most for each restart of the bot and each call Telegram left open.    *)
SentOnce == \A d \in Deliveries : \A i \in Items : Len(chat[d][i]) <= 1 + again

(* A notice, the end of a run and its approval request reach the user or    *)
(* are given up, even when another chat refuses everything.                 *)
Told(d) == delivery[d] # "pending"
UserIsTold ==
    \A d \in Deliveries : ChatOf(d) \notin Flooded =>
        /\ d \in Notices => <>Told(d)
        /\ d \in Runs => /\ status[d] \in Ended ~> Told(d)
                         /\ status[d] = "asking" ~> (chat[d][Ask] # <<>> \/ status[d] # "asking" \/ Told(d))

(* The same as AcknowledgedIsShown of a canceled run: it does not hold, as  *)
(* the executor seals its reply after the cancel ended the run.             *)
CanceledIsShown ==
    \A r \in Runs : delivery[r] = "sent" /\ status[r] = "canceled" => ShowsReplies(r)
=============================================================================
