------------------------------ MODULE QualityGate ------------------------------
(***************************************************************************)
(* What a company must show before the prospecting worker keeps it:         *)
(* src/app/prospecting/quality.py, scoring.py and validation.py, in the     *)
(* order in which a task applies them.                                      *)
(*                                                                          *)
(* A text is the set of the kinds of words that the patterns of quality.py  *)
(* find in it, and a value is the text it holds.  A company has fewer than  *)
(* the hundred observations at which compact_evidence begins to drop some.  *)
(* A score is whether there is one.                                         *)
(***************************************************************************)
EXTENDS Naturals, FiniteSets

CONSTANTS
    Unset,
    Profiles,      \* the companies that the sources give
    Snippets,      \* what a hit of Brave says of a company: its name and its description
    Targets,       \* the sets of roles that campaigns look for
    Territory,     \* the communes of the campaign
    MaxHits

VARIABLES
    profile,       \* the company
    targets,
    step,          \* what has been done with it
    marketed, scored,   \* market_score and score are not zero
    hitsOfProfile

gateVars == <<profile, targets, step, marketed, scored, hitsOfProfile>>

Roles == {"distribuidor", "instalador grande", "tecnico", "tienda comercial", "competencia"}

\* The words of a text, with "hvac" for any of the strong patterns.
Words == {"hvac", "distributor", "installer", "technician", "store",
          "excluded", "end_user", "general_trade"}

\* A category is read as text too: a large installer's holds the word "instalador"
\* of a technician, but none of a large installer's.
WordsOf(category) ==
    CASE category = "distribuidor" -> {"distributor"}
      [] category \in {"tecnico", "instalador grande"} -> {"technician"}
      [] category = "tienda comercial" -> {"store"}
      [] OTHER -> {}

CandidateText(c) == c.name \cup c.description \cup c.specialties \cup WordsOf(c.category)

NameTypeText(c) == c.name \cup WordsOf(c.category)

ProviderText(c, provider) ==
    UNION {e.text : e \in {o \in c.evidence :
        o.provider = provider /\ o.field \in {"name", "description", "specialties"}}}

CriticalExclusion(c) ==
    \/ "excluded" \in CandidateText(c)
    \/ "end_user" \in NameTypeText(c)
    \/ "general_trade" \in NameTypeText(c) /\ "hvac" \notin NameTypeText(c)

GoogleConfirmed(c) ==
    LET text == ProviderText(c, "google_places")
        fields == {e.field : e \in {o \in c.evidence : o.provider = "google_places" /\ "hvac" \in o.text}}
    IN  /\ "hvac" \in text
        /\ \/ Cardinality(fields) >= 2
           \/ {"distributor", "store", "technician", "installer"} \cap text # {}

Confirmed(c) == "hvac" \in ProviderText(c, "official_website") \/ GoogleConfirmed(c)

InferTargetType(text, radar) ==
    CASE "distributor" \in text -> "distribuidor"
      [] text \cap {"distributor", "installer"} = {"installer"} -> "instalador grande"
      [] text \cap {"distributor", "installer", "technician"} = {"technician"} -> "tecnico"
      [] text \cap {"distributor", "installer", "technician", "store"} = {"store"} -> "tienda comercial"
      [] text \cap {"distributor", "installer", "technician", "store"} = {} /\ radar /\ "hvac" \in text
           -> "competencia"
      [] OTHER -> Unset

\* MUTANT of InferredRole: a technician is looked for before a large installer.
TechnicianFirst(c) ==
    IF ~Confirmed(c) THEN Unset
    ELSE InferTargetType(IF "technician" \in CandidateText(c) THEN CandidateText(c) \ {"installer"}
                                                              ELSE CandidateText(c),
                         "competencia" \in targets)

InferredRole(c) ==
    IF ~Confirmed(c) THEN Unset ELSE InferTargetType(CandidateText(c), "competencia" \in targets)

\* evaluate_hvac_quality: why a company is not one of the trade.
ExclusionReasons(c) ==
    {r \in {"excluded_business_type"} : CriticalExclusion(c)}
    \cup {r \in {"not_hvac_related"} : "hvac" \notin CandidateText(c) \/ ~Confirmed(c)}
    \cup {r \in {"target_type_unconfirmed"} : Confirmed(c) /\ InferredRole(c) = Unset}
    \cup {r \in {"outside_target_types"} : InferredRole(c) \notin targets \cup {Unset}}

Eligible(c) == ExclusionReasons(c) = {}

Observed(c, field, text) == \E e \in c.evidence : e.field = field /\ e.text = text

\* The sources observe what they say that a company does.
ASSUME GateAssumption ==
    /\ Unset \notin Roles \cup {"otro"}
    /\ \A p \in Profiles :
         /\ DOMAIN p = {"name", "description", "specialties", "category", "comunas", "contacts", "evidence"}
         /\ p.description # {} => Observed(p, "description", p.description)

HasCompleteEvidence(c) ==
    /\ Observed(c, "name", c.name)
    /\ c.description # {} => Observed(c, "description", c.description)
    /\ \A f \in c.contacts : \E e \in c.evidence : e.field = f
    /\ \A x \in c.comunas : \E e \in c.evidence : e.field = "location" /\ e.text = {x}

RejectionReasons(c) ==
    ExclusionReasons(c)
    \cup {r \in {"outside_requested_territory"} : c.comunas = {} \/ ~c.comunas \subseteq Territory}
    \cup {r \in {"missing_business_contact"} : c.contacts = {}}
    \cup {r \in {"missing_required_evidence"} : ~HasCompleteEvidence(c)}
    \cup {r \in {"target_type_unconfirmed"} : c.category = "otro"}
    \cup {r \in {"outside_target_types"} : c.category \notin targets \cup {"otro"}}
-----------------------------------------------------------------------------
\* Whether what a text search shows of a place, found by so many of the queries of
\* the task, is worth a request for its details.
AllowDetails(text, queries) ==
    /\ text \cap {"excluded", "end_user", "general_trade"} = {}
    /\ \/ "hvac" \in text
       \/ queries >= 2 /\ text \cap {"technician", "installer", "store"} # {}

GateInit ==
    /\ profile \in Profiles /\ targets \in Targets /\ step = "found"
    /\ \E queries \in 1..2 : AllowDetails(ProviderText(profile, "google_places"), queries)
    /\ marketed = FALSE /\ scored = FALSE /\ hitsOfProfile = 0

\* The market score follows what the company was before it had its category, and
\* the score what it is with it.
Classify ==
    LET category == IF InferredRole(profile) = Unset THEN "otro" ELSE InferredRole(profile)
        prepared == [profile EXCEPT !.category = category]
    IN  /\ step = "found" /\ step' = "classified"
        /\ profile' = prepared
        /\ marketed' = Eligible(profile) /\ scored' = Eligible(prepared)
        /\ UNCHANGED <<targets, hitsOfProfile>>

\* What no observation supports is taken away.
Sanitize ==
    /\ step = "classified" /\ step' = "sanitized"
    /\ profile' =
         [profile EXCEPT !.description = IF Observed(profile, "description", @) THEN @ ELSE {},
                         !.contacts = {f \in @ : \E e \in profile.evidence : e.field = f}]
    /\ UNCHANGED <<targets, marketed, scored, hitsOfProfile>>

Validate ==
    /\ step = "sanitized"
    /\ step' = IF RejectionReasons(profile) = {} THEN "accepted" ELSE "rejected"
    /\ UNCHANGED <<profile, targets, marketed, scored, hitsOfProfile>>

\* Brave finds a company that was kept: the hit is merged into it, and goes
\* through the gate with the category it has.
FoundAgain ==
    /\ step = "accepted" /\ hitsOfProfile < MaxHits
    /\ \E s \in Snippets :
         profile' = [profile EXCEPT
             !.description = IF @ = {} THEN s.description ELSE @,
             !.contacts = @ \cup {"website"},
             !.evidence = @ \cup
                 {[provider |-> "brave_search", field |-> "name", text |-> s.name],
                  [provider |-> "brave_search", field |-> "description", text |-> s.description],
                  [provider |-> "brave_search", field |-> "website", text |-> {}]}]
    /\ step' = "found" /\ hitsOfProfile' = hitsOfProfile + 1
    /\ UNCHANGED <<targets, marketed, scored>>

GateNext == Classify \/ Sanitize \/ Validate \/ FoundAgain

GateSpec == GateInit /\ [][GateNext]_gateVars
-----------------------------------------------------------------------------
\* A company is judged three times, before it has its category, with it, and after
\* what is not supported was taken away, and again when it is found again.  The
\* judgements agree, and the category is what the company would still be given:
\* none is kept with a score of zero, or under a role that its text no longer has.
VerdictsAgree ==
    step \in {"accepted", "rejected"} =>
        /\ marketed = scored /\ scored = Eligible(profile)
        /\ step = "accepted" => profile.category = InferredRole(profile)
=============================================================================
