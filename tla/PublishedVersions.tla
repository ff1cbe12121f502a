--------------------------- MODULE PublishedVersions ---------------------------
(***************************************************************************)
(* What the enterprise pack store promises to whoever pins a published     *)
(* version of a pack: once the content of a version can be read it stays   *)
(* the same, until the pack is deleted as a whole.                         *)
(***************************************************************************)
CONSTANTS Packs, Versions, Drafts, Nothing

VARIABLE content  \* content[p][v]: what version v of pack p reads as, or Nothing

NoContent == [v \in Versions |-> Nothing]

Init == content = [p \in Packs |-> NoContent]

Publish(p, v, d) == /\ content[p][v] = Nothing
                    /\ content' = [content EXCEPT ![p] = [@ EXCEPT ![v] = d]]

Remove(p) == content' = [content EXCEPT ![p] = NoContent]

Next == \E p \in Packs : Remove(p) \/ \E v \in Versions, d \in Drafts : Publish(p, v, d)

Spec == Init /\ [][Next]_content
=============================================================================
