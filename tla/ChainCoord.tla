----------------------------- MODULE ChainCoord -----------------------------
(***************************************************************************)
(* Chain-coordinate row ids of packages/indexer/squid-common/src/          *)
(* chainCoord.ts.  An id is the sequence of what its dashes separate: the  *)
(* three numbers of the coordinate, in decimal, and the words of the       *)
(* family's suffix, if it has one.  A number never contains a dash and a   *)
(* required suffix begins with one, so the string operations work on these *)
(* parts.                                                                  *)
(***************************************************************************)
EXTENDS Naturals, Sequences, SequencesExt

CONSTANTS
  Word,        \* what a part may be that is no decimal number
  Malformed    \* the null that parse answers

\* A word is no number, and null is no coordinate.
ASSUME CoordAssumption ==
  /\ Word \cap Nat = {}
  /\ Malformed \notin [blockNumber : Nat, extrinsicIndex : Nat, eventIndex : Nat]

Coord(block, extrinsic, event) ==
  [blockNumber |-> block, extrinsicIndex |-> extrinsic, eventIndex |-> event]

\* chainCoordIdMake: {block}-{extrinsic}-{event}[-suffix]
chainCoordIdMake(coord, suffix) ==
  <<coord.blockNumber, coord.extrinsicIndex, coord.eventIndex>> \o suffix

\* The id without the required suffix and the dash before it.
Stripped(id, suffix) == SubSeq(id, 1, Len(id) - Len(suffix))
HasSuffix(id, suffix) == Len(suffix) < Len(id) /\ IsSuffix(suffix, id)

\* parse of a family: the coordinate, or null for an id of another shape.
parse(id, suffix) ==
  LET parts == Stripped(id, suffix)
  IN IF HasSuffix(id, suffix) /\ Len(parts) = 3 /\ ToSet(parts) \cap Word = {}
     THEN Coord(parts[1], parts[2], parts[3]) ELSE Malformed
=============================================================================
