------------------------------ MODULE MCDvdReader ------------------------------
(***************************************************************************)
(* A small image: the IFO of the disc, and a title set with IFO, menu and  *)
(* a title whose third part is missing.                                     *)
(***************************************************************************)
EXTENDS DvdReader

CONSTANTS s1, s2      \* slots
Symmetry == Permutations(Slots)

File(kind, t, p) == <<kind, t, p>>
MCNames == {File("IFO", t, 0) : t \in 0 .. Titles - 1}
           \cup {File("VOB", t, p) : t \in 0 .. Titles, p \in 0 .. Parts}
MCListing == <<File("IFO", 0, 0), File("VOB", 1, 0), File("VOB", 1, 1),
               File("VOB", 1, 2), File("VOB", 1, 4),
               File("IFO", 1, 0)>>
MCBroken == {}
MCFirst == <<"dir", 0, 0>>
MCBlocks == [n \in MCNames \cup {Root, VideoTs} |->
               CASE n = File("VOB", 1, 1) -> 3 [] n = File("VOB", 1, 2) -> 2
                 [] n = File("IFO", 1, 0) -> 4 [] OTHER -> 1]
===============================================================================
