------------------------------ MODULE Storage ------------------------------
(***************************************************************************)
(* The file store of a node: one file per content and one per metadata     *)
(* key, written in place.  "cashew content add" and Thing::save write the  *)
(* content and then its metadata, in processes or threads of their own,    *)
(* while the node reads the same files; nothing locks them, and a writer   *)
(* may die or run out of disk between any two writes.                      *)
(*                                                                         *)
(* A content is written in two parts, so that a file holds none, either or *)
(* both of them; a part not written yet reads as a hole or a short file.   *)
(***************************************************************************)
EXTENDS Integers, FiniteSets

CONSTANTS
    Hash,      \* content hashes
    Writer,    \* processes that add content
    NoHash,    \* no content
    MaxPuts    \* bound: writes started

VARIABLES
    file,    \* [Hash -> "absent", or the set of parts the file holds]
    meta,    \* [Hash -> "absent", "empty" or "whole"], its metadata file
    writer,  \* what each writer is doing
    puts,
    cut      \* history: the contents some write of which was cut short

vars == <<file, meta, writer, puts, cut>>

Part == {1, 2}
Resting == [hash |-> NoHash, at |-> "idle", linked |-> TRUE]

Init ==
    /\ file = [h \in Hash |-> [there |-> FALSE, parts |-> {}]]
    /\ meta = [h \in Hash |-> "absent"]
    /\ writer = [w \in Writer |-> Resting]
    /\ puts = 0 /\ cut = {}

-----------------------------------------------------------------------------
has_content(h) == file[h].there

\* Whatever the file holds is returned; whether it is the content shows only
\* when somebody hashes it.
get_content(h) ==
    IF ~file[h].there THEN "none" ELSE IF file[h].parts = Part THEN "true" ELSE "false"

\* Thing::load: content and metadata are there, the metadata parses, and
\* Thing::create finds that the bytes hash to the name and have the length.
load(h) == get_content(h) = "true" /\ meta[h] = "whole"

\* put_content opens the file and thereby empties it.
put_content(w, h) ==
    /\ writer[w].at = "idle" /\ puts < MaxPuts
    /\ puts' = puts + 1
    /\ writer' = [writer EXCEPT ![w] = [hash |-> h, at |-> "opened", linked |-> TRUE]]
    /\ file' = [file EXCEPT ![h] = [there |-> TRUE, parts |-> {}]]
    /\ UNCHANGED <<meta, cut>>

\* The data goes out in order.  When the file was removed meanwhile, the bytes
\* go to an inode that has no name any more.
write_part(w) ==
    LET h == writer[w].hash
        Written(k) == IF writer[w].linked THEN [file EXCEPT ![h].parts = @ \cup {k}] ELSE file
    IN
    /\ \/ /\ writer[w].at = "opened"
          /\ file' = Written(1)
          /\ writer' = [writer EXCEPT ![w].at = "half"]
       \/ /\ writer[w].at = "half"
          /\ file' = Written(2)
          /\ writer' = [writer EXCEPT ![w].at = "stored"]
    /\ UNCHANGED <<meta, puts, cut>>

\* put_metadata of the caller: the file is emptied, then written.
put_metadata(w) ==
    LET h == writer[w].hash IN
    /\ \/ /\ writer[w].at = "stored"
          /\ meta' = [meta EXCEPT ![h] = "empty"]
          /\ writer' = [writer EXCEPT ![w].at = "meta"]
       \/ /\ writer[w].at = "meta"
          /\ meta' = [meta EXCEPT ![h] = "whole"]
          /\ writer' = [writer EXCEPT ![w] = Resting]
    /\ UNCHANGED <<file, puts, cut>>

\* The writer dies, or a write fails and it gives up; what it wrote stays.
give_up(w) ==
    /\ writer[w].at # "idle"
    /\ writer' = [writer EXCEPT ![w] = Resting]
    /\ cut' = cut \cup {writer[w].hash}
    /\ UNCHANGED <<file, meta, puts>>

delete_content(h) ==
    /\ has_content(h)
    /\ file' = [file EXCEPT ![h] = [there |-> FALSE, parts |-> {}]]
    /\ writer' = [w \in Writer |-> IF writer[w].hash = h THEN [writer[w] EXCEPT !.linked = FALSE] ELSE writer[w]]
    /\ UNCHANGED <<meta, puts, cut>>

Next ==
    \/ \E w \in Writer : (\E h \in Hash : put_content(w, h)) \/ write_part(w) \/ put_metadata(w) \/ give_up(w)
    \/ \E h \in Hash : delete_content(h)

Spec == Init /\ [][Next]_vars

-----------------------------------------------------------------------------
\* However many writers store one content at once, and whatever is deleted in
\* between, a file that is there loads as a Thing unless a writer is still at
\* it or one was cut short: writers that all come to their end leave it whole.
WholeUnlessCut ==
    \A h \in Hash :
        (has_content(h) /\ h \notin cut /\ \A w \in Writer : writer[w].hash # h) => load(h)
=============================================================================
