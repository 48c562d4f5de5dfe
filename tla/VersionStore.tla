---------------------------- MODULE VersionStore ----------------------------
(***************************************************************************)
(* What the content tables promise their readers, whatever the mutation:   *)
(* every document is a log of revisions that is only ever appended to, its *)
(* place and its liveness are those of its last revision, and an address   *)
(* that ever opened a document opens one for good: the same document,      *)
(* wherever it has moved, until another document settles at the address.   *)
(***************************************************************************)
EXTENDS Integers, Sequences

CONSTANTS
    Documents,
    Addresses,
    AddressOf       \* the address of a source path

VARIABLES
    log,            \* per document, its revisions: an operation and a path
    opens           \* per address, the document it opens, or 0

storeVars == <<log, opens>>

Exists(d) == log[d] # <<>>
Last(d) == log[d][Len(log[d])]
Live(d) == Exists(d) /\ Last(d).op # "delete"
HomeOf(d) == AddressOf[Last(d).path]

\* Which operation may follow in a log: an image uploaded over a tombstone is
\* recorded as created once more, and only a move changes the path.
Follows(d, rev) ==
    IF ~Exists(d) THEN rev.op = "create"
    ELSE /\ rev.op \in {"update", "move", "delete"} => Live(d)
         /\ rev.op = "create" => ~Live(d)
         /\ rev.op = "move" <=> rev.path # Last(d).path

Advances(d) ==
    /\ Len(log'[d]) = Len(log[d]) + 1
    /\ SubSeq(log'[d], 1, Len(log[d])) = log[d]
    /\ Follows(d, log'[d][Len(log'[d])])

\* The document that address a comes to open has just come to live there.
Settled(a) ==
    \E d \in Documents :
        /\ opens'[a] = d
        /\ log'[d] # log[d]
        /\ HomeOf(d)' = a
        /\ Exists(d) => HomeOf(d) # a

OpensAtHome == \A d \in Documents : Exists(d) => opens[HomeOf(d)] = d

Init ==
    /\ \A d \in Documents : Len(log[d]) <= 1 /\ (Exists(d) => Last(d).op = "create")
    /\ \A a \in Addresses :
          opens[a] # 0 => opens[a] \in Documents /\ Exists(opens[a])
    /\ OpensAtHome

Next ==
    /\ \A d \in Documents : log'[d] = log[d] \/ Advances(d)
    /\ \A a \in Addresses : opens'[a] = opens[a] \/ Settled(a)
    /\ OpensAtHome'

Spec == Init /\ [][Next]_storeVars
=============================================================================
