----------------------------- MODULE MCCandidates -----------------------------
(***************************************************************************)
(* Instance for TLC of Candidates.                                          *)
(***************************************************************************)
EXTENDS Candidates

Find(google, brave, rut, domain, phone, name, comuna) ==
    [id |-> Absent, rut |-> rut, domain |-> domain, phone |-> phone, name |-> name,
     comuna |-> comuna, address |-> Absent,
     ids |-> [brave_search |-> brave, google_places |-> google, official_website |-> Absent]]

\* A telephone and a website lead from one place to another.
Shop == Find("g1", Absent, Absent, "d1", Absent, "n1", "c1")
Office == Find("g2", Absent, Absent, Absent, "p1", "n2", "c1")
Branch == Find("g3", Absent, Absent, "d2", Absent, "n1", "c1")

Places == {<<Shop>>, <<Office>>, <<Branch>>, <<Office, Shop>>}

Page(brave, rut, domain, name) == Find(Absent, brave, rut, domain, Absent, name, Absent)

Hits == {<<Page("u1", Absent, "d1", "n1")>>, <<Page("u2", Absent, "d2", "n3")>>,
         <<Page("u3", Absent, "d1", "n3"), Page("u2", Absent, "d2", "n1")>>,
         <<Page("u1", Absent, "d1", "n1"), Page("u3", Absent, "d1", "n3")>>}

Websites == [d1 |-> [phone |-> "p1", comuna |-> "c1", address |-> "a1"],
             d2 |-> [phone |-> Absent, comuna |-> "c1", address |-> Absent]]

AlikeNames == {{"n1", "n3"}}
=============================================================================
