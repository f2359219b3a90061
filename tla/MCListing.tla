------------------------------ MODULE MCListing -----------------------------
(* Small instances of Listing for TLC.                                     *)
EXTENDS Listing, TLC

CONSTANTS k1, k2, k3

MCKeys   == {k1, k2, k3}

Plain == [page_budget |-> None, pages |-> None, requests |-> None, bytes |-> None,
          timed |-> FALSE, allowance |-> 0, streams |-> FALSE, can_refresh |-> FALSE]

(* The listing that seeds a cache, and streamed ones: unbounded, with a    *)
(* page budget, with each of the bounds that can be reached, and with all. *)
MCQueries ==
  { Plain,
    [Plain EXCEPT !.pages = 2, !.can_refresh = TRUE],
    [Plain EXCEPT !.streams = TRUE, !.allowance = 1, !.can_refresh = TRUE],
    [Plain EXCEPT !.streams = TRUE, !.page_budget = 2, !.allowance = 1],
    [Plain EXCEPT !.streams = TRUE, !.requests = 3, !.allowance = 2],
    [Plain EXCEPT !.streams = TRUE, !.bytes = 3],
    [Plain EXCEPT !.streams = TRUE, !.timed = TRUE, !.pages = 2, !.allowance = 1] }

KeySymmetry == Permutations(MCKeys)
=============================================================================
