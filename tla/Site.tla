-------------------------------- MODULE Site --------------------------------
(***************************************************************************)
(* The readers of a tenant beside the grammar its paths are spelled in.     *)
(***************************************************************************)
EXTENDS Readers, Addressing

\* The grammar is a function of spellings, so it is examined once, in the
\* initial state.

\* ensureParents creates the directories above a path unasked: they are valid
\* directories themselves, so no reserved or ill-formed path is ever created
\* (models/paths.go, ValidatePath and Ancestors).
ParentsAreValid == ReadersInit => ValidAbove

\* Every entry answers at its own addresses whatever else the site holds:
\* distinct rendered paths are enough for that (entry.go, HTMLPath and
\* JSONPath, against RenderedToCandidates and the order of serveContent).
EntriesAnswerAtTheirAddresses == ReadersInit => AnswerWhereTheyLive
=============================================================================
