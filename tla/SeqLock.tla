------------------------------ MODULE SeqLock ------------------------------
(***************************************************************************)
(* psync::SeqLock (psync_seqlock.h) over a snapshot of two cells: the word *)
(* is sequence_.  The client serialises its writers; a write stores the    *)
(* odd sequence number it got into both cells.  A reader is                *)
(* read_transaction(), or the same loop written with SeqLockReadGuard.     *)
(*                                                                         *)
(* Loads and stores take effect in program order, which x86-64 guarantees  *)
(* for this code (stores in order, loads in order, the fetch_adds are full *)
(* barriers) and a compiler_fence() on ARM64 does not.  The number does    *)
(* not wrap: a reader held up during 2^31 writes is left out.              *)
(***************************************************************************)
EXTENDS FutexWord

VARIABLES
    cells,      \* cells[1], cells[2]: the protected data
    copy        \* copy[t]: what reader t has read of them

seqVars == <<cells, copy>>

Nothing == [c \in {1, 2} |-> 0]
Fill(data, c, value) == [data EXCEPT ![c] = value]

SeqInit ==
    /\ cells = Nothing
    /\ copy = [t \in Threads |-> Nothing]

Writing == {t \in Threads : pc[t] \in {"write1", "write2", "write_end"}}

\* write_begin(), also as the constructor of SeqLockWriteGuard.
WriteBegin(t) ==
    /\ Writing = {}
    /\ word' = word + 1
    /\ Begin(t, "write", "write1", word + 1)
    /\ UNCHANGED seqVars

WriteCell(t) ==
    /\ \/ pc[t] = "write1" /\ cells' = Fill(cells, 1, local[t]) /\ Move(t, "write2", local[t])
       \/ pc[t] = "write2" /\ cells' = Fill(cells, 2, local[t]) /\ Move(t, "write_end", 0)
    /\ UNCHANGED <<word, copy>>

\* write_end(), also as the destructor of SeqLockWriteGuard.
WriteEnd(t) ==
    /\ pc[t] = "write_end"
    /\ word' = word + 1
    /\ Move(t, "out", 0)
    /\ UNCHANGED seqVars

ReadTransaction(t) ==
    /\ Begin(t, "read", "read_begin", 0)
    /\ UNCHANGED <<word, seqVars>>

\* The load of read_begin() that finds an even number.
ReadBegin(t) ==
    /\ pc[t] = "read_begin" /\ word % 2 = 0
    /\ Move(t, "read1", word)
    /\ UNCHANGED <<word, seqVars>>

ReadCell(t) ==
    /\ \/ pc[t] = "read1" /\ Move(t, "read2", local[t])
          /\ copy' = [copy EXCEPT ![t] = Fill(@, 1, cells[1])]
       \/ pc[t] = "read2" /\ Move(t, "read_retry", local[t])
          /\ copy' = [copy EXCEPT ![t] = Fill(@, 2, cells[2])]
    /\ UNCHANGED <<word, cells>>

\* The result of a transaction goes out of scope.
Discard(t) == copy' = [copy EXCEPT ![t] = Nothing]

\* Mutant: only asks whether a write is going on now.
ReadRetryOdd(t) ==
    /\ pc[t] = "read_retry"
    /\ IF word % 2 = 1 THEN Move(t, "read_begin", 0) /\ Discard(t)
       ELSE Move(t, "accept", local[t]) /\ UNCHANGED copy
    /\ UNCHANGED <<word, cells>>

ReadRetry(t) ==
    /\ pc[t] = "read_retry"
    /\ IF word # local[t] THEN Move(t, "read_begin", 0) /\ Discard(t)
       ELSE Move(t, "accept", local[t]) /\ UNCHANGED copy
    /\ UNCHANGED <<word, cells>>

\* The transaction returns what it has read.
ReadReturn(t) ==
    /\ pc[t] = "accept"
    /\ Discard(t)
    /\ Move(t, "out", 0)
    /\ UNCHANGED <<word, cells>>

SeqRun(t) ==
    \/ WriteCell(t) \/ WriteEnd(t) \/ ReadBegin(t) \/ ReadCell(t)
    \/ ReadRetry(t) \/ ReadReturn(t)

\* What the cells held while the sequence number was the even number seq.
SnapshotOf(seq) == [c \in {1, 2} |-> IF seq = 0 THEN 0 ELSE seq - 1]
=============================================================================
