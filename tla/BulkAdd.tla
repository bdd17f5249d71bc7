------------------------------ MODULE BulkAdd ------------------------------
(***************************************************************************)
(* Pasting a list of sites: bulk_add_monitors of the dashboard and         *)
(* app/services/bulk_add.py.  A submit reads what is monitored and how     *)
(* much room the plan leaves, validates every site (each an await), and    *)
(* adds all it planned in one commit.                                      *)
(*                                                                         *)
(* A site is the URL a line was normalised to, repeated lines dropped.     *)
(* Names, intervals and the spread of the first checks are left out.       *)
(***************************************************************************)
EXTENDS Integers, FiniteSets, SequencesExt, Lists

CONSTANTS
  Site,      \* normalised URLs
  Https,     \* those with a certificate
  HostOf,    \* [Site -> host]
  Bad,       \* those the validators refuse
  Paste,     \* submits that may be under way at once
  Plan       \* max_monitors of the plans, from the first on

\* An upgrade never lowers the limit.
BulkAddAssumption ==
  /\ IsFiniteSet(Site) /\ Https \subseteq Site /\ Bad \subseteq Site
  /\ Plan \in Seq(Nat) /\ Plan # <<>>
  /\ \A i, j \in DOMAIN Plan : i < j => Plan[i] <= Plan[j]

VARIABLES
  watched,     \* HTTP monitors of each site
  certs,       \* SSL monitors of each host
  plan,        \* index of the account's plan
  paste,       \* each submit, with what it planned
  overlapped   \* history: something changed what a submit had read before it committed

vars == <<watched, certs, plan, paste, overlapped>>

Host == {HostOf[s] : s \in Site}

\* The rows of monitors that the account has.
Rows ==
  LET http == UNION {{<<"http", s>>} \X (1..watched[s]) : s \in Site}
      ssl == UNION {{<<"ssl", h>>} \X (1..certs[h]) : h \in Host}
  IN  http \cup ssl

Used == Cardinality(Rows)

Idle == [pc |-> "idle", list |-> <<>>, planned |-> <<>>]

Larger(a, b) == IF a > b THEN a ELSE b

\* What can be added: not refused, and not monitored yet.
New(list) == Filter(list, {i \in DOMAIN list : list[i] \notin Bad /\ watched[list[i]] = 0})

\* One certificate a host; only for sites whose HTTP monitor is new.
Secure(list) ==
  LET new == New(list)
  IN  Filter(new, {i \in DOMAIN new :
                     /\ new[i] \in Https /\ certs[HostOf[new[i]]] = 0
                     /\ \A j \in 1..(i - 1) : new[j] \in Https => HostOf[new[j]] # HostOf[new[i]]})

Monitors(kind, sites) == [i \in DOMAIN sites |-> [kind |-> kind, site |-> sites[i]]]

\* planned[:room]
Cut(planned) == First(planned, Larger(Plan[plan] - Used, 0))

\* Bug: every site's certificate comes right after it.
Planned_PerSite(list, also_ssl) ==
  Cut(FlattenSeq([i \in DOMAIN New(list) |->
        LET s == New(list)[i]
        IN  Monitors("http", <<s>>)
            \o IF also_ssl /\ Contains(Secure(list), s) THEN Monitors("ssl", <<s>>) ELSE <<>>]))

\* In the order of the paste, every HTTP monitor first.
Planned(list, also_ssl) ==
  Cut(Monitors("http", New(list)) \o IF also_ssl THEN Monitors("ssl", Secure(list)) ELSE <<>>)

-----------------------------------------------------------------------------

Submit(p, list, also_ssl) ==
  /\ paste[p].pc = "idle" /\ list # <<>>
  /\ paste' = [paste EXCEPT ![p] =
       [pc |-> "planned", list |-> list, planned |-> Planned(list, also_ssl)]]
  /\ UNCHANGED <<watched, certs, plan, overlapped>>

Count(p, kind, sites) ==
  Cardinality({i \in DOMAIN paste[p].planned :
                 paste[p].planned[i].kind = kind /\ paste[p].planned[i].site \in sites})

\* With nothing planned there is nothing to commit.
Commit(p) ==
  /\ paste[p].pc = "planned"
  /\ watched' = [s \in Site |-> watched[s] + Count(p, "http", {s})]
  /\ certs' = [h \in Host |-> certs[h] + Count(p, "ssl", {s \in Site : HostOf[s] = h})]
  /\ overlapped' = (overlapped \/ \E q \in Paste \ {p} : paste[q].pc = "planned")
  /\ paste' = [paste EXCEPT ![p] = Idle]
  /\ UNCHANGED plan

Abort(p) ==
  /\ paste[p].pc # "idle"
  /\ paste' = [paste EXCEPT ![p] = Idle]
  /\ UNCHANGED <<watched, certs, plan, overlapped>>

Planning == \E p \in Paste : paste[p].pc = "planned"

DeleteMonitor(s) ==
  /\ watched[s] > 0
  /\ watched' = [watched EXCEPT ![s] = @ - 1]
  /\ overlapped' = (overlapped \/ Planning)
  /\ UNCHANGED <<certs, plan, paste>>

DeleteCertificate(h) ==
  /\ certs[h] > 0
  /\ certs' = [certs EXCEPT ![h] = @ - 1]
  /\ overlapped' = (overlapped \/ Planning)
  /\ UNCHANGED <<watched, plan, paste>>

Upgrade ==
  /\ plan < Len(Plan)
  /\ plan' = plan + 1
  /\ UNCHANGED <<watched, certs, paste, overlapped>>

Init ==
  /\ watched = [s \in Site |-> 0] /\ certs = [h \in Host |-> 0]
  /\ plan = 1 /\ paste = [p \in Paste |-> Idle] /\ overlapped = FALSE

\* Bound: once something overlapped there are no more pastes.
Next ==
  \/ \E p \in Paste :
       \/ ~overlapped /\ \E sites \in SUBSET Site : \E list \in SetToSeqs(sites), also_ssl \in BOOLEAN :
            Submit(p, list, also_ssl)
       \/ Commit(p) \/ Abort(p)
  \/ \E s \in Site : DeleteMonitor(s)
  \/ \E h \in Host : DeleteCertificate(h)
  \/ Upgrade

Spec == Init /\ [][Next]_vars

-----------------------------------------------------------------------------

\* "A tight plan limit keeps uptime coverage widest": no room goes to a certificate while
\* a site of the paste that could be watched is not; and unless two pastes overlapped, no
\* site is watched twice and the plan's limit is kept.
WidestCoverage ==
  /\ \A p \in Paste : Count(p, "ssl", Site) > 0 =>
       \A s \in ToSet(paste[p].list) \ Bad : watched[s] > 0 \/ Count(p, "http", {s}) > 0
                                             \/ overlapped
  /\ ~overlapped => /\ \A s \in Site : watched[s] <= 1
                    /\ \A h \in Host : certs[h] <= 1
                    /\ Used <= Plan[plan]
=============================================================================
