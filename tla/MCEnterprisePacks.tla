--------------------------- MODULE MCEnterprisePacks ---------------------------
(***************************************************************************)
(* One pack: requests on different packs touch different rows.  Two        *)
(* administrators.                                                         *)
(***************************************************************************)
EXTENDS OrderlyPacks, TLC
CONSTANTS alice, bob, p1, m1

const_Admins == {alice, bob}
const_Packs == {p1}
const_Edits == {}   \* what an edit can do is leave a promoted asset out
const_Assets == {m1}
first_Version == {1}
Symmetry == Permutations(const_Admins)
=============================================================================
