-------------------------- MODULE MCVersionedStore --------------------------
(***************************************************************************)
(* Instance of VersionedStore for TLC.                                     *)
(***************************************************************************)
EXTENDS VersionedStore

\* Clients, names and values are interchangeable; the property is one of
\* safety.
Symmetry ==
    Permutations(Clients) \cup Permutations(Names)
        \cup Permutations(RowValues) \cup Permutations(TableValues)
\* Writes of the transactions in the order they begin.
MCMaxRecords == <<1, 2, 1>>
=============================================================================
