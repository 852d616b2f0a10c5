----------------------------- MODULE MCDnsConfig -----------------------------
(* Instances of DnsConfig for TLC.                                         *)
EXTENDS DnsConfig, TLC

CONSTANTS s1, s2, a1, d1

MCOneSession == {s1}
MCTwoSessions == {s1, s2}
MCOneAddress == {a1}
MCDomains == {d1}
MCSymmetry == Permutations(MCTwoSessions)

MCComment == [kind |-> "other", words |-> <<d1>>]
MCBare == [kind |-> "bare", words |-> <<a1>>]

\* A plain file, and one that has every kind of line, out of save()'s order.
MCFiles == {
    <<Line("nameserver", a1), MCComment>>,
    <<MCComment, Line("sortlist", a1), Line("domain", d1), Line("nameserver", a1),
      MCBare, [kind |-> "search", words |-> <<d1, d1>>], Line("domain", d1)>> }

\* A file an administrator wrote with one name server more than the limit.
MCCrowdedFiles == { [i \in 1 .. 4 |-> Line("nameserver", a1)] }
=============================================================================
