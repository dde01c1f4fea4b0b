---------------------------- MODULE LogRotation -----------------------------
(***************************************************************************)
(* The service log on Windows (src/internal/daemon/daemon_windows.go):     *)
(* rotatingFile appends to client.log and, before a write that would pass  *)
(* the limit, moves it to client.log.1.  Writers are serialised by f.mu,    *)
(* so the steps below belong to one Write at a time; what can come between  *)
(* them is the failure of any file operation (a viewer that holds a file,   *)
(* a full disk) and the end of the process, after which the next start      *)
(* finds the files as they are.                                             *)
(*                                                                          *)
(* A generation is the sequence of what was written to it: the number of    *)
(* each piece, and the length of the file after it.                         *)
(***************************************************************************)
EXTENDS Naturals, Sequences

CONSTANTS
    Limit,      \* rotatingFile.limit
    Lengths,    \* lengths of the lines that are logged
    MaxPieces   \* bound: lines written to the disk

LimitAssumption == Limit \in Nat \ {0}
LengthsAssumption == Lengths \subseteq Nat \ {0}
MaxPiecesAssumption == MaxPieces \in Nat

VARIABLES
    active,     \* client.log
    previous,   \* client.log.1
    exists,     \* does client.log.1 exist
    pieces,     \* pieces ever written to the disk
    out,        \* what LogOutput returned: "none", "file" or "stdout"
    open,       \* f.file # nil
    size,       \* f.size
    pc,         \* the next step of the Write under way
    line,       \* the length of its line
    failed      \* did the last rotation fail to rename

vars == <<active, previous, exists, pieces, out, open, size, pc, line, failed>>

Piece == [n : 1 .. MaxPieces, end : Nat \ {0}]

Bytes(generation) == IF generation = <<>> THEN 0 ELSE generation[Len(generation)].end

(* The type invariant; in particular no handle is open while rotate works   *)
(* on the files.                                                            *)
TypeOK ==
    /\ active \in Seq(Piece) /\ previous \in Seq(Piece)
    /\ exists \in BOOLEAN
    /\ pieces \in 0 .. MaxPieces
    /\ out \in {"none", "file", "stdout"}
    /\ open \in BOOLEAN
    /\ size \in Nat
    /\ pc \in {"idle", "close", "remove", "rename", "reopen", "write"}
    /\ line \in Lengths \cup {0}
    /\ pc \in {"remove", "rename", "reopen"} => ~open
    /\ failed \in BOOLEAN

Init ==
    /\ active = <<>> /\ previous = <<>>
    /\ exists = FALSE
    /\ pieces = 0
    /\ out = "none"
    /\ open = FALSE
    /\ size = 0
    /\ pc = "idle"
    /\ line = 0
    /\ failed = FALSE

files == <<active, previous, exists, pieces>>

----------------------------------------------------------------------------
(***************************************************************************)
(* LogOutput in a service, and the end of the process.                     *)
(***************************************************************************)
LogOutput ==
    /\ out = "none"
    /\ \/ out' = "file" /\ open' = TRUE /\ size' = Bytes(active)
       \/ out' = "stdout" /\ UNCHANGED <<open, size>>
    /\ UNCHANGED <<files, pc, line, failed>>

\* The process ends, perhaps in the middle of a Write.
Exit ==
    /\ out # "none"
    /\ out' = "none"
    /\ open' = FALSE
    /\ size' = 0
    /\ pc' = "idle"
    /\ line' = 0
    /\ UNCHANGED <<files, failed>>

Close ==
    /\ out = "file" /\ pc = "idle"
    /\ open
    /\ open' = FALSE
    /\ UNCHANGED <<files, out, size, pc, line, failed>>

----------------------------------------------------------------------------
(***************************************************************************)
(* Write.  A Write on a nil file returns ErrClosed and changes nothing.    *)
(***************************************************************************)
WriteIgnoresLine(len) ==
    /\ out = "file" /\ pc = "idle"
    /\ open
    /\ line' = len
    /\ pc' = IF size > Limit THEN "close" ELSE "write"
    /\ UNCHANGED <<files, out, open, size, failed>>

Write(len) ==
    /\ out = "file" /\ pc = "idle"
    /\ open
    /\ line' = len
    /\ pc' = IF size > 0 /\ size + len > Limit THEN "close" ELSE "write"
    /\ UNCHANGED <<files, out, open, size, failed>>

\* rotate: the handle is given up, whether or not closing it succeeds.
RotateClose ==
    /\ pc = "close"
    /\ open' = FALSE
    /\ \/ pc' = "remove" /\ UNCHANGED failed
       \/ pc' = "reopen" /\ failed' = TRUE
    /\ UNCHANGED <<files, out, size, line>>

\* os.Remove(path + ".1"), whose result is ignored.
RotateRemove ==
    /\ pc = "remove"
    /\ \/ exists' = FALSE /\ previous' = <<>>
       \/ UNCHANGED <<exists, previous>>
    /\ pc' = "rename"
    /\ UNCHANGED <<active, pieces, out, open, size, line, failed>>

\* os.Rename replaces client.log.1 if it is still there.
RotateRename ==
    /\ pc = "rename"
    /\ \/ /\ previous' = active /\ exists' = TRUE
          /\ active' = <<>>
          /\ failed' = FALSE
       \/ failed' = TRUE /\ UNCHANGED <<active, previous, exists>>
    /\ pc' = "reopen"
    /\ UNCHANGED <<pieces, out, open, size, line>>

ReopenTruncated ==
    /\ pc = "reopen"
    /\ active' = <<>>
    /\ open' = TRUE /\ pc' = "write" /\ size' = 0 /\ UNCHANGED line
    /\ UNCHANGED <<previous, exists, pieces, out, failed>>

ReopenSizeReset ==
    /\ pc = "reopen"
    /\ \/ open' = TRUE /\ pc' = "write" /\ size' = 0 /\ UNCHANGED line
       \/ pc' = "idle" /\ line' = 0 /\ UNCHANGED <<open, size>>
    /\ UNCHANGED <<files, out, failed>>

\* The deferred reopen.  When Stat fails f.size keeps its old value; when
\* OpenFile fails f.file stays nil and Write returns.
RotateReopen ==
    /\ pc = "reopen"
    /\ \/ /\ open' = TRUE /\ pc' = "write"
          /\ size' \in {Bytes(active), size}
          /\ UNCHANGED line
       \/ pc' = "idle" /\ line' = 0 /\ UNCHANGED <<open, size>>
    /\ UNCHANGED <<files, out, failed>>

\* f.file.Write: n bytes of the line reach the file, fewer on an error.
WriteFile ==
    /\ pc = "write"
    /\ pieces < MaxPieces
    /\ \/ \E n \in 1 .. line :
             /\ active' = Append(active, [n |-> pieces + 1, end |-> Bytes(active) + n])
             /\ pieces' = pieces + 1
             /\ size' = size + n
       \/ UNCHANGED <<active, pieces, size>>
    /\ pc' = "idle"
    /\ line' = 0
    /\ UNCHANGED <<previous, exists, out, open, failed>>

Next ==
    \/ LogOutput \/ Exit \/ Close
    \/ \E len \in Lengths : Write(len)
    \/ RotateClose \/ RotateRemove \/ RotateRename \/ RotateReopen
    \/ WriteFile

Spec == Init /\ [][Next]_vars

----------------------------------------------------------------------------
(***************************************************************************)
(* Properties.                                                             *)
(***************************************************************************)

(* The two generations on the disk are, one after the other, the last       *)
(* pieces written, in order and without a gap: whatever operation of rotate *)
(* fails and wherever the process ends, only the oldest lines go.           *)
KeepsLatestLines ==
    LET kept == previous \o active IN
    \A i \in DOMAIN kept : kept[i].n = pieces - Len(kept) + i

(* f.size never falls behind the file, also after a rotation that could not *)
(* rename or could not Stat: the limit is never applied to too small a size. *)
SizeNotBehind == open => size >= Bytes(active)

(* "the file needs a ceiling": the active generation is longer than the    *)
(* limit only when it is a single line, or when the last attempt to rename  *)
(* it failed.                                                               *)
GenerationBounded == Bytes(active) > Limit => Len(active) = 1 \/ failed

(* "A viewer can temporarily prevent Windows from renaming a generation;    *)
(* rotate still restores an active handle": after a rotation, whatever      *)
(* failed in it, f.file is open until Close or the end of the process.      *)
RotateRestoresHandle ==
    [][pc = "reopen" /\ out' = "file" => open']_vars

(* "rotatingFile keeps one previous generation": when lines older than the  *)
(* active generation have been rotated out of it, the generation they went  *)
(* to is there.                                                             *)
PreviousKept ==
    pc = "idle" /\ active # <<>> => (active[1].n > 1 => exists)
============================================================================
