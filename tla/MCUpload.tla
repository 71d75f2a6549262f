------------------------------ MODULE MCUpload ------------------------------
(* Small instances of UploadConsumer: two Logic instances, a sender and a   *)
(* recipient, and messages of every kind of which a behaviour publishes     *)
(* MaxPublished.                                                            *)
EXTENDS UploadConsumer, TLC

CONSTANTS s, a,   \* the sender and the recipient
          Later   \* single chats that are published after the other ones

MCUsers == {s, a}
MCSender == [m \in Group |-> s]
MCReceiver == [m \in Single \cup AI |-> a]

\* Instances are interchangeable, and so are the single chats: all of them
\* have the same receiver.
MCSymmetry == Permutations(Logics) \cup Permutations(Single)

\* What is published together: two single chats, which may share a batch, or one
\* of the consumer's three paths with another, except that a single and a group
\* chat, whose paths meet only in a crash of their instance, are kept apart.  The
\* single chats being interchangeable, Later ones follow the others; the sender's
\* own route matters to a group chat only.
New(M) == \A m \in M : up[m] = "new"
Together ==
  /\ \A m \in Later : up[m] # "new" => \A n \in Single \ Later : up[n] # "new"
  /\ New(Single) \/ New(Group)
  /\ New(Group) => s \notin online

MCNext == Next /\ Together'
MCSpec == Init /\ [][MCNext]_vars /\ Fairness
=============================================================================
