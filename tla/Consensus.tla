----------------------------- MODULE Consensus -----------------------------
(***************************************************************************)
(* The verdict rule of app/services/regions.py: which status a monitor     *)
(* gets from the latest fresh result of each voting region.  Pure          *)
(* operators; the modules that keep checks and incidents use them.         *)
(*                                                                         *)
(* `latest' maps every region to "up", "down" or "none"; "none" stands for *)
(* a region with no fresh result, a code missing from the Python dict.     *)
(***************************************************************************)
EXTENDS Integers, FiniteSets

CheckStatus == {"up", "down"}
Vote == CheckStatus \cup {"none"}

\* Bug: half of the voting regions is enough.
quorum_Half(n) == n \div 2

\* Votes needed for a verdict: a strict majority of the n voting regions.
quorum(n) == (n \div 2) + 1

\* The voting regions whose latest fresh result is s.
Voters(latest, voting, s) == {c \in voting : latest[c] = s}

\* Bug: a majority must be exceeded.
consensus_Exceeds(latest, voting) ==
  LET need == quorum(Cardinality(voting))
  IN  IF Cardinality(Voters(latest, voting, "down")) > need THEN "down"
      ELSE IF Cardinality(Voters(latest, voting, "up")) > need THEN "up"
      ELSE "incomplete"

\* "down", "up", or "incomplete" while neither side has a majority.  No
\* voting region at all is "incomplete", never "up".
consensus(latest, voting) ==
  LET need  == quorum(Cardinality(voting))
      votes == {c \in voting : latest[c] \in CheckStatus}
      down  == Cardinality(Voters(latest, voting, "down"))
      up    == Cardinality(votes) - down
  IN  IF down >= need THEN "down"
      ELSE IF up >= need THEN "up"
      ELSE "incomplete"
=============================================================================
