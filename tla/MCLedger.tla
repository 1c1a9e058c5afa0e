------------------------------ MODULE MCLedger ------------------------------
(***************************************************************************)
(* What a node writes down: Ledger, LedgerFile, the life of one ledger     *)
(* between saves and loads, and ContentRenderer, the renderer on top of    *)
(* the content files. They share no state, so each behaviour follows one   *)
(* of them, chosen by part: a behaviour of all together projects to one of *)
(* each. The values TLC checks it for are in the .cfg file.                *)
(***************************************************************************)
EXTENDS Ledger, TLC

CONSTANTS
    Self, ZeroPayload, TornPayload, Hash, Script, Caller, Writer, NoHash,
    FileMaxTime, Size, MaxItems, MaxBytes, ContentMaxTime, MaxCalls, MaxPuts

ASSUME FileAssumption == FileMaxTime \in Nat

VARIABLES
    part,
    mem, disk, file_clock,
    cache, job, served, content_clock, calls, file, meta, writer, puts, cut

\* Contents of one byte.
UnitSize == [h \in Hash |-> 1]

F == INSTANCE LedgerFile WITH
    MaxTime <- FileMaxTime, clock <- file_clock

C == INSTANCE ContentRenderer WITH
    Active <- Script, MaxTime <- ContentMaxTime, clock <- content_clock

F_vars == <<mem, disk, file_clock>>
C_vars == <<cache, job, served, content_clock, calls, file, meta, writer, puts,
        cut>>

all_vars == <<part, vars, F_vars, C_vars>>

LedgerInit ==
    /\ part \in {"ledger", "file", "content"}
    /\ Init
    /\ F!Init /\ C!Init

LedgerNext ==
    \/ part = "ledger" /\ Next /\ UNCHANGED <<part, F_vars, C_vars>>
    \/ part = "file" /\ F!Next /\ UNCHANGED <<part, vars, C_vars>>
    \/ part = "content" /\ C!Next /\ UNCHANGED <<part, vars, F_vars>>

LedgerSpec == LedgerInit /\ [][LedgerNext]_all_vars

\* Nodes and payloads are interchangeable: no definition tells them apart.
Symmetry == Permutations(Node) \cup Permutations(Payload)

\* What render and the gateway serve has the digest that was asked for, though
\* the file may be half written, cut short by a crash or deleted when it is
\* read (ContentRenderer).
ContentSound == part = "content" => C!ContentSound

\* Saves that a crash cuts anywhere and loads of what they left:
\* load_from_file brings back every whole frame, and the ledger that goes on
\* from it is linked (LedgerFile).
FileSound == part = "file" => F!FileSound
=============================================================================
