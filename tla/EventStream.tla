----------------------------- MODULE EventStream -----------------------------
(***************************************************************************)
(* The live event stream of one session (internal/events, the SSE handler  *)
(* of internal/api, daemonclient.SubscribeEvents) and the terminal's view  *)
(* that follows it (clients/terminal/chat/runtime/app_stream.go): events   *)
(* are subscribed first, a snapshot is loaded second, and events it        *)
(* already covers are dropped.                                             *)
(*                                                                         *)
(* A record is what the view shows: a message, the run, an approval.  Its  *)
(* versions stand for its contents; a writer stores one and publishes it   *)
(* in a second step.  The terminal asks for no replay of older events; a   *)
(* client that resumes (clients/ios) is left out.                          *)
(***************************************************************************)
EXTENDS Naturals, Sequences

CONSTANTS Records,
          Shared,       \* the records two threads of the daemon write
          ChannelSize,  \* channelBuffer
          WireSize,     \* bound: events between the handler and the client
          MaxVersion,   \* bound: versions of a record
          MaxBreaks,    \* bound: streams that break, reloads, snapshots that fail
          MaxRestarts   \* bound: restarts of the daemon

ASSUME RecordsAssumption == Shared \subseteq Records
ASSUME SizeAssumption == ChannelSize \in Nat \ {0} /\ WireSize \in Nat \ {0}
ASSUME StreamBounds == MaxVersion \in Nat /\ MaxBreaks \in Nat /\ MaxRestarts \in Nat

VARIABLES
    store,     \* the stored version of each record
    writing,   \* what each writer stored and has not published
    log,       \* the bus: every event published since the daemon started
    sub,       \* the client's subscription: whether it is open
    channel,   \* its channel
    wire,      \* the events written to the client and not taken
    ended,     \* whether the client's stream ended
    client,    \* where the client stands
    reading,   \* the snapshot: its event ID and the records read so far
    early,     \* events taken before the snapshot
    floor,     \* the snapshot's event ID
    taken,     \* the ID of the last event taken
    view,      \* the version of each record the client shows
    shown,     \* whether the client ever loaded a snapshot
    life,      \* the daemon's lives, and the one the stream is of
    breaks

bus == <<log, sub, channel, wire, ended>>
app == <<client, reading, early, floor, taken, view, shown>>
streamVars == <<store, writing, bus, app, life, breaks>>

-----------------------------------------------------------------------------
Writers == ({"own"} \X Records) \union ({"other"} \X Shared)
Nothing == 0
Event(r, v, id) == [record |-> r, version |-> v, id |-> id]
NoRead == [id |-> 0, left |-> {}, records |-> [r \in Records |-> 0], life |-> 0]

LastID == Len(log)

StreamInit ==
    /\ store = [r \in Records |-> 0]
    /\ writing = [w \in Writers |-> Nothing]
    /\ log = <<>> /\ sub = FALSE /\ channel = <<>> /\ wire = <<>> /\ ended = FALSE
    /\ client = "off"
    /\ reading = NoRead /\ early = <<>> /\ floor = 0 /\ taken = 0
    /\ view = [r \in Records |-> 0]
    /\ shown = FALSE
    /\ life = [daemon |-> 0, stream |-> 0]
    /\ breaks = 0

-----------------------------------------------------------------------------
(* The daemon's writers. *)

Store(w) ==
    LET r == w[2] IN
    /\ writing[w] = Nothing /\ store[r] < MaxVersion
    /\ store' = [store EXCEPT ![r] = @ + 1]
    /\ writing' = [writing EXCEPT ![w] = store[r] + 1]
    /\ UNCHANGED <<bus, app, life, breaks>>

(* Publish numbers the event and hands it to the subscriber, who is closed  *)
(* when its channel is full.                                                *)
Publish(w) ==
    LET e == Event(w[2], writing[w], LastID + 1)
        fits == Len(channel) < ChannelSize
    IN
    /\ writing[w] # Nothing
    /\ writing' = [writing EXCEPT ![w] = Nothing]
    /\ log' = Append(log, e)
    /\ channel' = IF sub /\ fits THEN Append(channel, e) ELSE channel
    /\ sub' = (sub /\ fits)
    /\ UNCHANGED <<store, wire, ended, app, life, breaks>>

-----------------------------------------------------------------------------
(* handleEvents and readSSE: the handler writes what the channel holds; a   *)
(* closed channel ends the stream once it is drained.                       *)
Streaming == client \in {"early", "reading", "read", "live"} /\ ~ended

Forward ==
    /\ Streaming
    /\ channel # <<>> /\ Len(wire) < WireSize
    /\ wire' = Append(wire, Head(channel))
    /\ channel' = Tail(channel)
    /\ UNCHANGED <<store, writing, log, sub, ended, app, life, breaks>>

EndStream ==
    /\ Streaming
    /\ ~sub /\ channel = <<>>
    /\ ended' = TRUE
    /\ UNCHANGED <<store, writing, log, sub, channel, wire, app, life, breaks>>

(* The connection fails, or an event cannot be written. *)
Break ==
    /\ Streaming /\ breaks < MaxBreaks
    /\ ended' = TRUE /\ sub' = FALSE /\ channel' = <<>>
    /\ breaks' = breaks + 1
    /\ UNCHANGED <<store, writing, log, wire, app, life>>

(* The bus and what its writers did not publish go with the daemon; a       *)
(* client keeps what it took.                                               *)
Restart ==
    /\ life.daemon < MaxRestarts
    /\ life' = [life EXCEPT !.daemon = @ + 1]
    /\ log' = <<>> /\ sub' = FALSE /\ channel' = <<>>
    /\ ended' = (ended \/ Streaming)
    /\ writing' = [w \in Writers |-> Nothing]
    /\ UNCHANGED <<store, wire, app, breaks>>

-----------------------------------------------------------------------------
(* The client. *)

(* reload: stopStream, then SubscribeEvents from now on. *)
Subscribe ==
    /\ client = "off"
    /\ channel' = <<>>
    /\ sub' = TRUE /\ wire' = <<>> /\ ended' = FALSE
    /\ client' = "early"
    /\ early' = <<>>
    /\ taken' = 0
    /\ life' = [life EXCEPT !.stream = life.daemon]
    /\ UNCHANGED <<store, writing, log, reading, floor, view, shown, breaks>>

(* ClientSnapshot: the newest event's ID, then one table after the other.   *)
BeginSnapshot ==
    /\ client = "early"
    /\ client' = "reading"
    /\ reading' = [id |-> LastID, left |-> Records, records |-> store, life |-> life.daemon]
    /\ UNCHANGED <<store, writing, bus, early, floor, taken, view, shown, life, breaks>>

(* The last table read, then the ID. *)
ReadRecord_IDLast(r) ==
    /\ client = "reading" /\ reading.life = life.daemon
    /\ r \in reading.left
    /\ reading' = [reading EXCEPT !.left = @ \ {r}, !.records[r] = store[r], !.id = LastID]
    /\ client' = IF reading'.left = {} THEN "read" ELSE "reading"
    /\ UNCHANGED <<store, writing, bus, early, floor, taken, view, shown, life, breaks>>

ReadRecord(r) ==
    /\ client = "reading" /\ reading.life = life.daemon
    /\ r \in reading.left
    /\ reading' = [reading EXCEPT !.left = @ \ {r}, !.records[r] = store[r]]
    /\ client' = IF reading'.left = {} THEN "read" ELSE "reading"
    /\ UNCHANGED <<store, writing, bus, early, floor, taken, view, shown, life, breaks>>

(* applyEvent, for the events newer than the snapshot: of those about a     *)
(* record, the last one is what the view shows.                             *)
Newer(r, events, id) == {i \in DOMAIN events : events[i].record = r /\ events[i].id > id}

Applied(shows, events, id) ==
    [r \in Records |->
        IF Newer(r, events, id) = {} THEN shows[r]
        ELSE LET last == CHOOSE i \in Newer(r, events, id) :
                           \A j \in Newer(r, events, id) : j <= i
             IN events[last].version]

(* handleSnapshot: New, then the events that came before it. *)
HandleSnapshot ==
    /\ client = "read"
    /\ client' = "live"
    /\ shown' = TRUE
    /\ floor' = reading.id
    /\ view' = Applied(reading.records, early, reading.id)
    /\ reading' = NoRead /\ early' = <<>>
    /\ UNCHANGED <<store, writing, bus, taken, life, breaks>>

(* handleLiveEvent. *)
TakeEvent ==
    /\ client \in {"early", "reading", "read", "live"}
    /\ wire # <<>>
    /\ wire' = Tail(wire)
    /\ taken' = Head(wire).id
    /\ IF client = "live"
       THEN view' = Applied(view, <<Head(wire)>>, floor) /\ UNCHANGED early
       ELSE early' = Append(early, Head(wire)) /\ UNCHANGED view
    /\ UNCHANGED <<store, writing, log, sub, channel, ended, client, reading, floor, shown, life, breaks>>

Fail_GivesUp(error) ==
    /\ client' = IF error THEN "failed" ELSE "off"
    /\ sub' = FALSE /\ channel' = <<>> /\ wire' = <<>> /\ ended' = TRUE
    /\ early' = <<>> /\ reading' = NoRead /\ floor' = 0
    /\ UNCHANGED <<store, writing, log, taken, view, shown, life>>

(* streamFailed, and the reconnect after its delay: an error before the     *)
(* first snapshot is shown and left at that.                                *)
Fail(error) ==
    /\ client' = IF error /\ ~shown THEN "failed" ELSE "off"
    /\ sub' = FALSE /\ channel' = <<>> /\ wire' = <<>> /\ ended' = TRUE
    /\ early' = <<>> /\ reading' = NoRead /\ floor' = 0
    /\ UNCHANGED <<store, writing, log, taken, view, shown, life>>

(* The end may be seen before the last events are. *)
StreamEnds ==
    /\ client \in {"early", "reading", "read", "live"} /\ ended
    /\ \E error \in BOOLEAN : Fail(error)
    /\ UNCHANGED breaks

SnapshotFails ==
    /\ client = "reading"
    /\ reading.life # life.daemon
    /\ Fail(TRUE)
    /\ UNCHANGED breaks

(* The store fails the snapshot, or the user asks for another session. *)
Reload ==
    /\ client \in {"early", "reading", "read", "live"}
    /\ breaks < MaxBreaks
    /\ \E error \in BOOLEAN : Fail(error)
    /\ breaks' = breaks + 1

-----------------------------------------------------------------------------
ClientStep == Subscribe \/ BeginSnapshot \/ (\E r \in Records : ReadRecord(r))
                 \/ HandleSnapshot \/ SnapshotFails

StreamNext ==
    \/ \E w \in Writers : Store(w) \/ Publish(w)
    \/ Forward \/ EndStream \/ Break \/ Restart
    \/ ClientStep \/ TakeEvent \/ StreamEnds \/ Reload

StreamSpec == StreamInit /\ [][StreamNext]_streamVars

(* Goroutines that can go on do, and the client reads what comes; nothing   *)
(* must be written and nothing needs to break.                              *)
StreamFairness ==
    /\ \A w \in Writers : WF_streamVars(Publish(w))
    /\ WF_streamVars(Forward) /\ WF_streamVars(EndStream)
    /\ WF_streamVars(ClientStep) /\ WF_streamVars(TakeEvent) /\ WF_streamVars(StreamEnds)

FairStreamSpec == StreamSpec /\ StreamFairness
-----------------------------------------------------------------------------
Versions == 0 .. MaxVersion

StreamTypeOK ==
    /\ store \in [Records -> Versions]
    /\ writing \in [Writers -> Versions]
    /\ view \in [Records -> Versions]
    /\ Len(channel) <= ChannelSize /\ Len(wire) <= WireSize

Own == Records \ Shared

(* What the terminal shows has every event up to the snapshot's ID and up   *)
(* to the last one taken, whatever was published between the subscription,  *)
(* the snapshot's ID and its reads, and however far behind the client fell  *)
(* (snapshot.go: ClientSnapshot; app_stream.go: stream; events.go: Bus).    *)
ViewHasAll ==
    (client = "live" /\ life.stream = life.daemon)
        => \A i \in 1 .. LastID :
              (log[i].record \in Own /\ (i <= floor \/ i <= taken)) => view[log[i].record] >= log[i].version

(* A view that falls behind, whose stream breaks or whose daemon restarts   *)
(* catches up: at last it shows what is stored, unless nothing could be     *)
(* shown from the start (app_stream.go: streamFailed, reload).              *)
CatchesUp == <>[]((client = "failed" /\ ~shown) \/ \A r \in Own : view[r] = store[r])

(* The same for the records two threads write: the run, which a cancel and  *)
(* its executor store and publish (ARCHITECTURE.md:124).                    *)
SharedCatchesUp == <>[]((client = "failed" /\ ~shown) \/ \A r \in Shared : view[r] = store[r])
=============================================================================
