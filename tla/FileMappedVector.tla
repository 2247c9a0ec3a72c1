--------------------------- MODULE FileMappedVector ---------------------------
(***************************************************************************)
(* lib/Common/FileMappedVector.h: a vector kept in a mapped file, with a   *)
(* suffix behind it.  push_back, pop_back and clear write in place; every  *)
(* other operation makes a new file and swaps it in with two renames.  The *)
(* process may die between any two of these steps, and a rename may fail.  *)
(*                                                                         *)
(* What is written to a mapped file is there for the next process.  The    *)
(* prefix is a value of the owner's, copied with the vector.               *)
(***************************************************************************)
EXTENDS Naturals, Sequences, SequencesExt

CONSTANTS
    Keys,           \* elements
    MaxSize,        \* bound on the elements
    Capacity,       \* of a new vector
    MaxErrors,      \* bound on failed renames
    MaxCrashes

VARIABLES
    files,          \* "path", ".bak" and the temporary file: a content, or None
    mapped,         \* m_file.path(), or "none" when the vector is not open
    op,             \* the operation that runs: where it is, and what it is to do
    errors, crashes

vectorVars == <<files, mapped, op, errors, crashes>>

None == [none |-> TRUE]
Idle == [at |-> "idle"]

\* No operation runs; the last one may have returned or thrown.
Ready == op.at \in {"idle", "returned", "thrown"}

\* What a file holds.  Cells behind the size hold what was left there.
Content(cells, size, capacity, prefix, suffix) ==
    [cells |-> cells, size |-> size, capacity |-> capacity, prefix |-> prefix, suffix |-> suffix]
Elements(c) == SubSeq(c.cells, 1, c.size)
Vector == files[mapped]

nextCapacity(c) == c.capacity + c.capacity \div 2 + 1

\* What open() of the next process finds, whatever was going on.
Recovered == IF files["path"] # None THEN files["path"] ELSE files["bak"]

-----------------------------------------------------------------------------
(***************************************************************************)
(* The operations.  op.before and op.goal are the elements an operation    *)
(* starts from and is to leave.                                            *)
(***************************************************************************)
Begin(at, goal, more) ==
    /\ Ready /\ mapped # "none"
    /\ op' = more @@ [at |-> at, before |-> Elements(Vector), goal |-> goal]
    /\ UNCHANGED <<files, mapped, errors, crashes>>

\* atomicUpdate: a new content, and what is to be done when it is in place.
atomicUpdate(c, next, goal, more) == Begin("copy", goal, more @@ [new |-> c, next |-> next])

push_back(k) ==
    LET c == Vector
        goal == Append(Elements(c), k)
    IN  IF c.size = c.capacity
        THEN atomicUpdate([c EXCEPT !.capacity = nextCapacity(c), !.cells = Elements(c)],
                          "element", goal, [val |-> k])
        ELSE Begin("element", goal, [val |-> k])

pop_back ==
    /\ Vector.size > 0
    /\ Begin("size", Front(Elements(Vector)), [size |-> Vector.size - 1])

clear == Begin("size", <<>>, [size |-> 0])

erase(i) ==
    LET left == RemoveAt(Elements(Vector), i)
    IN  atomicUpdate([Vector EXCEPT !.cells = left, !.size = Len(left)], "returned", left, <<>>)

insert(i, k) ==
    LET all == InsertAt(Elements(Vector), i, k)
        room == IF Len(all) > Vector.capacity THEN nextCapacity(Vector) ELSE Vector.capacity
    IN  atomicUpdate([Vector EXCEPT !.cells = all, !.size = Len(all), !.capacity = room],
                     "returned", all, <<>>)

\* The owner's function writes all of the new vector (the third atomicUpdate).
replaceAll(prefix, suffix) ==
    atomicUpdate([Vector EXCEPT !.prefix = prefix, !.suffix = suffix, !.cells = Elements(Vector)],
                 "returned", Elements(Vector), <<>>)

\* resizeSuffix, and the copy into the suffix that its callers make in place.
\* Of another size, the old suffix is cut or followed by zeros.
Torn == [torn |-> TRUE]
resizeSuffix(other, suffix) ==
    IF other THEN atomicUpdate([Vector EXCEPT !.suffix = Torn, !.cells = Elements(Vector)],
                               "suffix", Elements(Vector), [suffix |-> suffix])
    ELSE Begin("suffix", Elements(Vector), [suffix |-> suffix])

-----------------------------------------------------------------------------
(***************************************************************************)
(* The steps of an operation.                                              *)
(***************************************************************************)
To(at) == op' = [op EXCEPT !.at = at]
Counted(failed) ==
    /\ failed => errors < MaxErrors
    /\ errors' = IF failed THEN errors + 1 ELSE errors

\* A vector that an earlier error left mapped to the .bak file is not updated;
\* otherwise an old .bak file goes, and the new content is written and flushed.
copy ==
    /\ op.at = "copy"
    /\ IF mapped # "path" THEN To("thrown") /\ UNCHANGED files
       ELSE To("toBak") /\ files' = [files EXCEPT !["bak"] = None, !["tmp"] = op.new]
    /\ UNCHANGED <<mapped, errors, crashes>>

\* Mutant: the vector's file is removed before the new one has its name.
toBakRemoves(failed) ==
    /\ op.at = "toBak" /\ Counted(failed)
    /\ IF failed THEN To("thrown") /\ files' = [files EXCEPT !["tmp"] = None] /\ UNCHANGED mapped
       ELSE /\ To("swap") /\ mapped' = "bak"
            /\ files' = [files EXCEPT !["path"] = None]
    /\ UNCHANGED crashes

\* m_file.rename(bakPath)
toBak(failed) ==
    /\ op.at = "toBak" /\ Counted(failed)
    /\ IF failed THEN To("thrown") /\ files' = [files EXCEPT !["tmp"] = None] /\ UNCHANGED mapped
       ELSE /\ To("swap") /\ mapped' = "bak"
            /\ files' = [files EXCEPT !["bak"] = files["path"], !["path"] = None]
    /\ UNCHANGED crashes

\* tmpVector.rename(m_path): then this is the vector.
swap(failed) ==
    /\ op.at = "swap" /\ Counted(failed)
    /\ IF failed THEN To("restore") /\ UNCHANGED <<files, mapped>>
       ELSE /\ To("cleanup") /\ mapped' = "path"
            /\ files' = [files EXCEPT !["path"] = files["tmp"], !["tmp"] = None]
    /\ UNCHANGED crashes

\* "Try to restore and ignore errors": the vector may stay in the .bak file.
restore(failed) ==
    /\ op.at = "restore" /\ Counted(failed) /\ To("thrown")
    /\ IF failed THEN files' = [files EXCEPT !["tmp"] = None] /\ UNCHANGED mapped
       ELSE /\ mapped' = "path"
            /\ files' = [files EXCEPT !["path"] = files["bak"], !["bak"] = None, !["tmp"] = None]
    /\ UNCHANGED crashes

\* "Remove .bak file and ignore errors"
cleanup(failed) ==
    /\ op.at = "cleanup" /\ Counted(failed) /\ To(op.next)
    /\ files' = IF failed THEN files ELSE [files EXCEPT !["bak"] = None]
    /\ UNCHANGED <<mapped, crashes>>

InPlace(c) == files' = [files EXCEPT ![mapped] = c] /\ UNCHANGED <<mapped, errors, crashes>>

\* push_back writes the element, flushes it, and only then counts it.
element ==
    /\ op.at = "element" /\ op' = [at |-> "size", size |-> Vector.size + 1] @@ op
    /\ InPlace([Vector EXCEPT !.cells = Append(Elements(Vector), op.val)])

size ==
    /\ op.at = "size" /\ To("returned")
    /\ InPlace([Vector EXCEPT !.size = op.size])

\* std::copy into the suffix: part of it, then all.
suffixBegun ==
    /\ op.at = "suffix" /\ Vector.suffix # Torn
    /\ UNCHANGED op /\ InPlace([Vector EXCEPT !.suffix = Torn])

suffixWritten ==
    /\ op.at = "suffix" /\ Vector.suffix = Torn /\ To("returned")
    /\ InPlace([Vector EXCEPT !.suffix = op.suffix])

Step ==
    \/ copy \/ element \/ size \/ suffixBegun \/ suffixWritten
    \/ \E failed \in BOOLEAN : toBak(failed) \/ swap(failed) \/ restore(failed) \/ cleanup(failed)

-----------------------------------------------------------------------------
\* The process dies.  (Temporary files have names of their own each time.)
VectorLost ==
    /\ mapped # "none" /\ mapped' = "none" /\ op' = Idle
    /\ files' = [files EXCEPT !["tmp"] = None]

Crash == VectorLost /\ crashes < MaxCrashes /\ crashes' = crashes + 1 /\ UNCHANGED errors

\* open, when there is something to open.
open ==
    /\ mapped = "none" /\ Recovered # None /\ mapped' = "path"
    /\ files' = [files EXCEPT !["path"] = Recovered, !["bak"] = None]

\* A new file.
create(prefix, suffix) ==
    /\ mapped = "path" /\ op = Idle /\ errors = 0 /\ crashes = 0
    /\ files = [f \in {"path", "bak", "tmp"} |->
                   IF f = "path" THEN Content(<<>>, 0, Capacity, prefix, suffix) ELSE None]

-----------------------------------------------------------------------------
\* An owner that calls everything.
VectorInit == create(None, None)

VectorNext ==
    \/ Step \/ Crash
    \/ open /\ UNCHANGED <<op, errors, crashes>>
    \/ \E k \in Keys : /\ mapped # "none" /\ Vector.size < MaxSize
                       /\ \/ push_back(k)
                          \/ \E i \in 1..Vector.size + 1 : insert(i, k)
    \/ /\ mapped # "none"
       /\ \/ pop_back \/ clear \/ replaceAll(None, None)
          \/ \E other \in BOOLEAN : resizeSuffix(other, None)
          \/ \E i \in 1..Vector.size : erase(i)

-----------------------------------------------------------------------------
\* Every operation is atomic: whenever the process dies, the next one finds the
\* elements from before the operation or those after it, and when the operation
\* has returned or thrown it finds those it promised ("It is slow but atomic
\* operation", FileMappedVector.h:949).
OperationsAtomic ==
    op.at # "idle" =>
        /\ Recovered # None /\ Elements(Recovered) \in {op.before, op.goal}
        /\ op.at = "returned" => Elements(Recovered) = op.goal
        /\ op.at = "thrown" => Elements(Recovered) = op.before
===============================================================================
