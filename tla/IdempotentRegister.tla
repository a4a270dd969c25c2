-------------------------- MODULE IdempotentRegister --------------------------
(* What ProjectMutationCoordinator promises its callers, with no lock, log or *)
(* file in sight: a document that grows by one edit at a time, in which no    *)
(* operation is ever installed twice, and answers that only ever name an edit *)
(* the document really holds.                                                 *)
EXTENDS Naturals, Sequences

CONSTANTS Op,        \* operation ids the callers use
          Payload    \* the mutations a caller may attach to an operation id

VARIABLES installed,  \* the edits the document is made of, in order
          acked       \* the answers given: an edit with the revision it made

absVars == <<installed, acked>>

Edit == [op : Op, fp : Payload]

RegisterInit == installed = << >> /\ acked = {}

Holds(op) == \E i \in DOMAIN installed : installed[i].op = op

Install(e) ==
  /\ ~ Holds(e.op)
  /\ installed' = Append(installed, e)
  /\ UNCHANGED acked

Acknowledge(i) ==
  /\ acked' = acked \cup {[op |-> installed[i].op, fp |-> installed[i].fp, rev |-> i]}
  /\ UNCHANGED installed

RegisterNext ==
  \/ \E e \in Edit : Install(e)
  \/ \E i \in DOMAIN installed : Acknowledge(i)

RegisterSpec == RegisterInit /\ [][RegisterNext]_absVars
===============================================================================
