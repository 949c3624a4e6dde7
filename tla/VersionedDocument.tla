-------------------------- MODULE VersionedDocument --------------------------
(***************************************************************************)
(* What the session store promises its writers: a document under           *)
(* optimistic concurrency control (GraphSession, collab/session.py).       *)
(*                                                                         *)
(* The content is named by its revision, the number of contents before it. *)
(* A client reads content and version at will; what it reads may already   *)
(* have been replaced, and a version may be older than the content it      *)
(* comes with, never newer.  A conditional write succeeds only in place of *)
(* the very content its author read; only a restoration asks nothing.      *)
(* A careless client, which reads the two apart, is kept from overwriting  *)
(* other versions only, not other contents.                                *)
(***************************************************************************)
EXTENDS Naturals

CONSTANTS Threads,
          Careless   \* the clients that read content and version apart

VARIABLES rev,       \* the content
          version,   \* the number of times it was replaced
          got,       \* what each client read last
          restoring  \* the clients that asked for a restoration

vars == <<rev, version, got, restoring>>

Init == /\ rev = 0
        /\ version = 0
        /\ got = [t \in Threads |-> [rev |-> 0, version |-> 0]]
        /\ restoring = {}

\* The client reads the content, with the version that is or was current.
Read(t) == \E v \in 0..version :
  /\ got' = [got EXCEPT ![t] = [rev |-> rev, version |-> v]]
  /\ UNCHANGED <<rev, version, restoring>>

ReadApart(t) == /\ t \in Careless
                /\ \E r \in 0..rev, v \in 0..version :
                     got' = [got EXCEPT ![t] = [rev |-> r, version |-> v]]
                /\ UNCHANGED <<rev, version, restoring>>

Replace == /\ rev' = rev + 1
           /\ version' = version + 1
           /\ UNCHANGED got

\* A write computed from the content the client read.
Write(t) == /\ t \notin restoring
            /\ got[t].rev = rev \/ t \in Careless
            /\ got[t].version = version
            /\ Replace
            /\ UNCHANGED restoring

AskToRestore(t) == /\ restoring' = restoring \cup {t}
                   /\ UNCHANGED <<rev, version, got>>

\* An earlier content comes back, once for each time it was asked for.
Restore(t) == /\ t \in restoring
              /\ restoring' = restoring \ {t}
              /\ Replace

Next == \E t \in Threads : \/ Read(t) \/ ReadApart(t) \/ Write(t)
                           \/ AskToRestore(t) \/ Restore(t)

Spec == Init /\ [][Next]_vars

=============================================================================
