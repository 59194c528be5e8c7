------------------------------ MODULE MCUploads ------------------------------
(* One user, two uploads at once, a limit of two in a window of two. *)
EXTENDS Uploads, TLC

CONSTANTS u1, c1, c2, i1, i2

Received(size, extension, declared, head) ==
  [size |-> size, extension |-> extension, declared |-> declared, head |-> head]

SentPhotos == {Received("usable", ".jpeg", "image/jpeg", "jpeg"),
               Received("usable", ".png", "image/png", "jpeg"),
               Received("usable", ".webp", "image/webp", "hostile")}
Limits == [k \in Owners |-> 2]

Symmetry == Permutations(Calls) \cup Permutations(Ids)
=============================================================================
