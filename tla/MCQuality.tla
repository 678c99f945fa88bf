------------------------------- MODULE MCQuality -------------------------------
(***************************************************************************)
(* Instance for TLC of QualityGate.                                         *)
(***************************************************************************)
EXTENDS QualityGate

Saying(provider, field, text) == [provider |-> provider, field |-> field, text |-> text]

\* What Google and the website of a company say of its name and of what it does.
Profile(name, types, site, inside) ==
    [name |-> name, description |-> IF site = {} THEN types ELSE site,
     specialties |-> {}, category |-> Unset, comunas |-> IF inside THEN {"c1"} ELSE {"c1", "c2"},
     contacts |-> {"phone"},
     evidence |-> {Saying("google_places", "name", name), Saying("google_places", "phone", {}),
                   Saying("google_places", "location", {"c1"})}
                  \cup {Saying("google_places", "description", t) : t \in {types} \ {{}}}
                  \cup {Saying("official_website", "description", t) : t \in {site} \ {{}}}]

Texts == {{}, {"hvac"}, {"technician"}, {"installer", "hvac"}, {"installer", "technician"},
          {"store", "excluded"}, {"distributor", "store"}}

Companies ==
    {Profile(n, t, s, TRUE) : n \in {{}, {"hvac"}, {"general_trade"}, {"general_trade", "hvac"}, {"end_user"}},
                              t \in Texts, s \in Texts}
    \cup {Profile({"hvac"}, {"store"}, {}, FALSE)}

Notes == [name : {{}, {"hvac"}}, description : {{"excluded"}, {"hvac", "technician"}}]

Campaign == {{"tecnico", "instalador grande"}, {"tienda comercial", "distribuidor"},
             {"competencia", "tecnico", "instalador grande"}}
=============================================================================
