------------------------------- MODULE MCRoom -------------------------------
(* Small instances of CollabRoom.                                          *)
EXTENDS CollabRoom, TLC

(* Browsers, edits, rooms, handlers and claims are interchangeable.        *)
Interchangeable ==
    Permutations(Browser) \cup Permutations(Edit) \cup Permutations(RoomId)
        \cup Permutations(Slot) \cup Permutations(ClaimId)
=============================================================================
