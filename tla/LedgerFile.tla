----------------------------- MODULE LedgerFile -----------------------------
(***************************************************************************)
(* Ledger::save_to_file and load_from_file: one node, its ledger, and the  *)
(* file it is written to.                                                  *)
(*                                                                         *)
(* A save truncates the file and writes the event count, then a frame per  *)
(* event, with no temporary file: a process that dies on the way leaves a  *)
(* prefix of these bytes.  load_from_file does not look at the stream's    *)
(* state, so past the end of the file it goes on with a zero-filled buffer *)
(* of whatever size the uninitialised length holds; from_bytes may or may  *)
(* not accept it.  Every such outcome is a choice of Load.                 *)
(***************************************************************************)
EXTENDS LedgerOps

CONSTANTS
    Self,            \* the node
    Payload,         \* event_type together with the event's data
    ZeroPayload,     \* NODE_JOINED with no data: what zero bytes decode to
    TornPayload,     \* data or signature whose last bytes are zero
    MaxTime,         \* bound: last clock value explored
    MaxCounter       \* bound: events a process creates before it ends

VARIABLES
    mem,             \* the Ledger object
    disk,            \* the file
    clock            \* system_clock, which never runs backwards

vars == <<mem, disk, clock>>

NoFile == [ exists |-> FALSE, headless |-> FALSE, frames |-> <<>>, lost |-> <<>> ]

\* The file when the first k of the events are written in full.  Even the
\* count may be missing (k = -1); lost is what the count promises beyond them.
FileOf(events, k) ==
    [ exists   |-> TRUE,
      headless |-> k < 0,
      frames   |-> SubSeq(events, 1, k),
      lost     |-> SubSeq(events, IF k < 0 THEN 1 ELSE k + 1, Len(events)) ]

\* What from_bytes makes of an all-zero buffer.
ZeroEvent ==
    [ event_id |-> ZeroHash, source_node |-> ZeroHash, timestamp |-> 0, epoch |-> 0,
      previous_hash |-> ZeroHash, payload |-> ZeroPayload ]

\* What from_bytes makes of a frame whose end is missing: the fields up to the
\* tear, zeros after it.  to_bytes writes the link before data and signature.
TornFrames(e) ==
    { [e EXCEPT !.payload = TornPayload],
      [e EXCEPT !.previous_hash = ZeroHash, !.payload = ZeroPayload],
      ZeroEvent }

\* The events load_from_file may decode after the last whole frame.
Tails(d) ==
    IF d.headless THEN {<<>>, <<ZeroEvent>>}
    ELSE IF d.lost = <<>> THEN {<<>>}
    ELSE {<<>>} \cup { <<x>> : x \in TornFrames(d.lost[1]) }
         \cup (IF Len(d.lost) > 1 THEN { <<x, ZeroEvent>> : x \in TornFrames(d.lost[1]) } ELSE {})

\* Mutant: event_lookup_ is kept.
ClearedEventsOnly(l) == [ l EXCEPT !.events = <<>>, !.events_by_node = [n \in {} |-> <<>>] ]

\* The three containers are cleared; latest_hash_ and event_counter_ are not.
Cleared(l) ==
    [ EmptyLedger EXCEPT !.latest_hash = l.latest_hash, !.event_counter = l.event_counter ]

\* add_event for each decoded event in turn.
Replay(l, events, now) ==
    LET after[i \in 0..Len(events)] ==
            IF i = 0 THEN l ELSE add_event(after[i - 1], events[i], now)
    IN  after[Len(events)]

-----------------------------------------------------------------------------
(* Actions *)

Init ==
    /\ mem = EmptyLedger
    /\ disk = NoFile
    /\ clock = 0

Record(p) ==
    LET l == [mem EXCEPT !.event_counter = @ + 1]
        e == create_event(mem, Self, clock, clock, p)
    IN  /\ mem.event_counter < MaxCounter
        /\ mem' = add_event(l, e, clock)
        /\ UNCHANGED <<disk, clock>>

save_to_file ==
    /\ disk' = FileOf(mem.events, Len(mem.events))
    /\ UNCHANGED <<mem, clock>>

\* The process dies inside save_to_file.
SaveCrash(k) ==
    /\ disk' = FileOf(mem.events, k)
    /\ mem' = EmptyLedger
    /\ UNCHANGED clock

\* The process ends anywhere else; a new one constructs a Ledger.
Restart ==
    /\ mem' = EmptyLedger
    /\ UNCHANGED <<disk, clock>>

load_from_file(tail) ==
    /\ disk.exists
    /\ mem' = Replay(Cleared(mem), disk.frames \o tail, clock)
    /\ UNCHANGED <<disk, clock>>

Tick ==
    /\ clock < MaxTime
    /\ clock' = clock + 1
    /\ UNCHANGED <<mem, disk>>

Next ==
    \/ \E p \in Payload : Record(p)
    \/ save_to_file
    \/ \E k \in -1..Len(mem.events) : SaveCrash(k)
    \/ Restart
    \/ \E tail \in Tails(disk) : load_from_file(tail)
    \/ Tick

Spec == Init /\ [][Next]_vars

-----------------------------------------------------------------------------
(* Properties *)

\* Every event in memory or on disk is a recorded or a damaged one, with a
\* time the clock has passed, and the counter stays in range.
TypeOK ==
    LET Known(e) == /\ e.payload \in Payload \cup {ZeroPayload, TornPayload}
                    /\ e.timestamp \in 0..clock
    IN  /\ clock \in 0..MaxTime
        /\ mem.event_counter \in 0..MaxCounter
        /\ \A i \in DOMAIN mem.events : Known(mem.events[i])
        /\ \A i \in DOMAIN disk.frames : Known(disk.frames[i])

\* A load gives back every event whose frame is whole, in order, and at most
\* one damaged event after them, whatever the ledger held before the load and
\* wherever the save was cut; a file written to its end gives back exactly
\* what was saved.
LoadRestoresFrames ==
    disk.exists =>
        \A tail \in Tails(disk) :
            LET loaded == Replay(Cleared(mem), disk.frames \o tail, clock).events IN
            /\ Len(loaded) \in Len(disk.frames)..Len(disk.frames) + 1
            /\ SubSeq(loaded, 1, Len(disk.frames)) = disk.frames
            /\ ~disk.headless /\ disk.lost = <<>> => loaded = disk.frames

\* The links inside a ledger hold after any sequence of saves, crashes, loads
\* and record calls, damaged events included, and no id occurs twice.
ChainIntact == validate_chain(mem) /\ detect_conflicts(mem) = {}

\* What save_to_file and load_from_file keep: whole frames come back, and the
\* ledger that loads and records go on from is linked.
FileSound == TypeOK /\ LoadRestoresFrames /\ ChainIntact
=============================================================================
