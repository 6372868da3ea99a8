-------------------------- MODULE MCGraphqlClient --------------------------
(***************************************************************************)
(* Instances of FragmentDocument and PaginatedResource for TLC: a document *)
(* is assembled, and pages are turned over one without fragments, so that  *)
(* the two do not multiply.  Every query and every registry over three     *)
(* names, with up to two spreads in a document, so self loops, cycles of   *)
(* three, repeated and unknown spreads all occur.  One page more than the  *)
(* rows fill, and the last page full or not.                               *)
(***************************************************************************)
EXTENDS FragmentDocument, PaginatedResource

CONSTANTS f, g, h

MCName == {f, g, h}

Lists(S) == {<<>>} \cup {<<a>> : a \in S} \cup {<<a, b>> : a, b \in S}

Spreads(S, form) == {[name |-> n, form |-> form] : n \in S}

\* Plain spreads, and some that the regular expression and GraphQL read
\* differently, alone or behind a plain one.
MCSpreads ==
  LET odd == Spreads({f}, "misread") \cup Spreads({g}, "comment")
  IN Lists(Spreads(MCName, "plain")) \cup {<<a>> : a \in odd}
       \cup {<<a, b>> : a \in Spreads({h}, "plain"), b \in odd}

-----------------------------------------------------------------------------
clientVars == <<docVars, pageVars>>

NoFragments == known = {} /\ \A d \in Doc : spreads[d] = <<>>

ClientInit == DocInit /\ PageInit /\ (NoFragments \/ (skip /\ rows = 0))

Assembly == (~returned \/ ~NoFragments) /\ DocNext /\ UNCHANGED pageVars
Pages == NoFragments /\ returned /\ PageNext /\ UNCHANGED docVars

ClientSpec ==
  ClientInit /\ [][Assembly \/ Pages]_clientVars /\ DocFairness /\ PageFairness
=============================================================================
