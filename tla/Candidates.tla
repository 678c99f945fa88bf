------------------------------ MODULE Candidates ------------------------------
(***************************************************************************)
(* The identity of the companies that the prospecting worker finds:         *)
(* src/app/prospecting/dedup.py, the candidate table of                     *)
(* src/app/prospecting/store.py, and the part of a task that reaches them.  *)
(*                                                                          *)
(* A company is what identifies it; its other fields and its evidence are   *)
(* left out, and so are its branches beside the canonical one, by which no  *)
(* company is matched.  One worker does one task at a time, and each of its *)
(* transactions is one action.                                              *)
(***************************************************************************)
EXTENDS ProspectingData, SequencesExt, FiniteSets

CONSTANTS
    Absent,        \* an identifier that a company does not show
    Campaigns,     \* runs
    GoogleFinds,   \* what a search of Google Places may give: non-empty sequences of companies
    BraveFinds,    \* what a search of Brave may give, in its order
    Sites,         \* what the website of a domain tells: [phone, comuna, address]
    Similar,       \* pairs of names that are alike and not equal
    MaxTasks

VARIABLES
    records,       \* the candidate table, in the order of insertion
    task,          \* what the worker holds: a phase, a run and companies
    raised,        \* where the task before raised, if it did
    tasksDone

candidateVars == <<records, task, raised, tasksDone>>

SourceNames == <<"brave_search", "google_places", "official_website">>

\* What identifies a company, and the id it has once it is saved.
Fields == {"id", "ids", "rut", "domain", "phone", "name", "comuna", "address"}

\* No source tells a RUT.
IsCompany(c) == DOMAIN c = Fields /\ DOMAIN c.ids = Range(SourceNames) /\ c.rut = Absent

ASSUME CandidatesAssumption ==
    /\ Absent \notin {"search", "save"}
    /\ \A found \in GoogleFinds \cup BraveFinds :
          /\ found \in Seq(Range(found))
          /\ \A n \in DOMAIN found : IsCompany(found[n]) /\ found[n].id = Absent

Keys == <<"rut", "provider_id", "domain", "phone", "name_comuna">>

\* Two companies show the same identifier, or two that differ.
Agree(a, b) == a # Absent /\ a = b
Differ(a, b) == a # Absent /\ b # Absent /\ a # b

\* The keys by which two companies are the same one, and those that contradict it.
Agreeing(c, e) ==
    {k \in {"rut", "domain", "phone"} : Agree(c[k], e[k])}
    \cup {k \in {"provider_id"} : \E p \in DOMAIN c.ids : Agree(c.ids[p], e.ids[p])}
    \cup {k \in {"name_comuna"} : /\ c.name = e.name /\ c.address = e.address
                                  /\ Agree(c.comuna, e.comuna)}

Contradicting(c, e) ==
    {k \in {"rut", "domain", "phone"} : Differ(c[k], e[k])}
    \cup {k \in {"provider_id"} : \E p \in DOMAIN c.ids : Differ(c.ids[p], e.ids[p])}

\* The key of the highest priority, as its place in Keys; 0 if there is none.
ExactKey(c, e) == SelectInSeq(Keys, LAMBDA k : k \in Agreeing(c, e))

\* An identifier outranks the match and contradicts it.
Blocked(c, e) == \E n \in 1..ExactKey(c, e) : Keys[n] \in Contradicting(c, e)

Exact(c, e) == ExactKey(c, e) # 0 /\ ~Blocked(c, e)

Fuzzy(c, e) == Agree(c.comuna, e.comuna) /\ (c.name = e.name \/ {c.name, e.name} \in Similar)

\* MUTANT of Disposition: of several entities that match, one is taken.
DispositionOfOne(c, known) ==
    IF \E e \in known : ExactKey(c, e) # 0 /\ Blocked(c, e) THEN "possible_duplicate"
    ELSE IF \E e \in known : Exact(c, e) THEN "exact_match"
    ELSE IF \E e \in known : Fuzzy(c, e) THEN "possible_duplicate"
    ELSE "unique"

\* What the company is to those that are known: an exact match of one entity, a
\* possible duplicate, or unique.
Disposition(c, known) ==
    LET entities == {e.id : e \in {k \in known : Exact(c, k)}}
    IN  IF \/ \E e \in known : ExactKey(c, e) # 0 /\ Blocked(c, e)
           \/ Cardinality(entities) > 1
        THEN "possible_duplicate"
        ELSE IF entities # {} THEN "exact_match"
        ELSE IF \E e \in known : Fuzzy(c, e) THEN "possible_duplicate"
        ELSE "unique"

MatchedId(c, known) == (CHOOSE e \in known : Exact(c, e)).id

Filled(a, b) == IF a = Absent THEN b ELSE a

\* The identifiers of both companies, those of the canonical one first; those of
\* the providers cannot contradict one another.
MergeExact(e, c) ==
    [e EXCEPT !.ids = [p \in DOMAIN e.ids |-> Filled(c.ids[p], e.ids[p])],
              !.rut = Filled(e.rut, c.rut), !.phone = Filled(e.phone, c.phone),
              !.domain = Filled(e.domain, c.domain)]

Fingerprint(c) ==
    LET p == SelectInSeq(SourceNames, LAMBDA s : c.ids[s] # Absent)
    IN  CASE c.rut # Absent -> <<"rut", c.rut>>
          [] c.rut = Absent /\ p # 0 -> <<SourceNames[p], c.ids[SourceNames[p]]>>
          [] c.rut = Absent /\ p = 0 /\ c.domain # Absent -> <<"domain", c.domain>>
          [] c.rut = Absent /\ p = 0 /\ c.domain = Absent /\ c.phone # Absent -> <<"phone", c.phone>>
          [] OTHER -> <<"name", c.name, c.comuna, c.address>>

\* MUTANT of ReviewFingerprint: a company to review is known by its name.
ReviewByName(c) == <<"review", c.name>>

ReviewFingerprint(c) == <<"review", [c EXCEPT !.id = Absent]>>

CandidateId(c, disposition) ==
    IF disposition = "possible_duplicate" THEN ReviewFingerprint(c) ELSE Filled(c.id, Fingerprint(c))
-----------------------------------------------------------------------------
NothingHeld == [phase |-> "idle", run |-> Absent, found |-> <<>>]

CandidatesInit ==
    records = <<>> /\ task = NothingHeld /\ raised = Absent /\ tasksDone = 0

\* The website gives its own identity, and its telephone and address where it
\* tells them; without a website, or without its answer, the company stays as it is.
Researched(c) ==
    {c} \cup {[c EXCEPT !.ids["official_website"] = c.domain,
                        !.phone = Filled(site.phone, @),
                        !.comuna = Filled(site.comuna, @),
                        !.address = IF site.comuna = Absent THEN @ ELSE site.address] :
                  site \in {Sites[d] : d \in {c.domain} \ {Absent}}}

AllResearched(found) ==
    {s \in [DOMAIN found -> UNION {Researched(found[n]) : n \in DOMAIN found}] :
        \A n \in DOMAIN found : s[n] \in Researched(found[n])}

Abort(where) ==
    task' = [NothingHeld EXCEPT !.run = task.run] /\ raised' = where /\ UNCHANGED <<records, tasksDone>>

\* Google Places gives each place once, and every place with a website is researched.
SearchGoogle(run) ==
    /\ task.phase = "idle" /\ tasksDone < MaxTasks
    /\ \E found \in GoogleFinds : \E companies \in AllResearched(found) :
         task' = [phase |-> "gate", run |-> run, found |-> companies]
    /\ raised' = Absent /\ UNCHANGED <<records, tasksDone>>

\* The results of one domain are merged into the first of them.
ByDomain(results) ==
    FoldLeft(LAMBDA merged, c :
                 LET n == SelectInSeq(merged, LAMBDA e : e.domain = c.domain)
                 IN  IF n = 0 THEN Append(merged, c)
                              ELSE [merged EXCEPT ![n] = MergeExact(@, c)],
             <<>>, results)

\* merge_exact_candidate refuses a result that is no exact match of the one it is to join.
Refused(results) ==
    \E i \in DOMAIN results, j \in DOMAIN results :
        i < j /\ results[i].domain = results[j].domain /\ ~Exact(results[i], results[j])

SearchBrave(run) ==
    /\ task.phase = "idle" /\ tasksDone < MaxTasks
    /\ \E results \in BraveFinds :
         IF Refused(results)
         THEN Abort("search")
         ELSE /\ task' = [phase |-> "partition", run |-> run, found |-> ByDomain(results)]
              /\ raised' = Absent /\ UNCHANGED <<records, tasksDone>>

RowsOf(run) == {records[n].company : n \in {m \in DOMAIN records : records[m].run = run}}

\* What the run has already found joins what it knows of it, and the rest is researched.
Partition ==
    LET known == RowsOf(task.run)
        merging == {c \in Range(task.found) : Disposition(c, known) = "exact_match"}
        Joined(c) == MergeExact(CHOOSE e \in known : e.id = MatchedId(c, known), c)
        novel == Among(task.found, Range(task.found) \ merging)
        merged == Among(task.found, merging)
    IN  /\ task.phase = "partition"
        /\ \E companies \in AllResearched(novel) :
             task' = [task EXCEPT !.phase = "gate",
                                  !.found = [n \in DOMAIN merged |-> Joined(merged[n])] \o companies]
        /\ UNCHANGED <<records, raised, tasksDone>>

\* The quality gate lets through what is in the territory and can be contacted.
Contactable(c) == c.comuna # Absent /\ {c.domain, c.phone} # {Absent}

Gate ==
    /\ task.phase = "gate"
    /\ task' = [task EXCEPT !.phase = "save", !.found = Among(@, {c \in Range(@) : Contactable(c)})]
    /\ UNCHANGED <<records, raised, tasksDone>>

\* One company of save_candidates: the row of the run that holds its entity takes
\* it in, or a row is added.  No table results when the merge is refused or the
\* run has a row of that key.
Saved(table, c) ==
    LET known == {table[n].company : n \in DOMAIN table}
        disposition == Disposition(c, known)
        id == IF disposition = "exact_match" THEN MatchedId(c, known) ELSE CandidateId(c, disposition)
        key == IF disposition = "possible_duplicate" THEN ReviewFingerprint(c) ELSE Fingerprint(c)
        mine == {n \in DOMAIN table : table[n].run = task.run}
        held == {n \in mine : table[n].company.id = id}
    IN  {[table EXCEPT ![n].company = MergeExact(@, c), ![n].disposition = disposition] :
             n \in {m \in held : Exact(table[m].company, c)}}
        \cup {Append(table, [run |-> task.run, key |-> key, disposition |-> disposition,
                             company |-> [c EXCEPT !.id = id]]) :
                  k \in {k \in {key} : held = {} /\ \A n \in mine : table[n].key # k}}

\* One company that is refused takes the whole transaction with it.
Save ==
    /\ task.phase = "save"
    /\ LET tables == FoldLeft(LAMBDA ts, c : UNION {Saved(t, c) : t \in ts}, {records}, task.found)
       IN  IF tables = {} THEN Abort("save")
           ELSE /\ records' \in tables /\ task' = NothingHeld
                /\ tasksDone' = tasksDone + 1 /\ UNCHANGED raised

CandidatesNext ==
    \/ \E run \in Campaigns : SearchGoogle(run) \/ SearchBrave(run)
    \/ Partition
    \/ Gate
    \/ Save

CandidatesSpec == CandidatesInit /\ [][CandidatesNext]_candidateVars
-----------------------------------------------------------------------------
\* Whatever is found, in whatever order: two records that share an identifier are
\* one entity, or one of them was put up for a human review when it was saved, which
\* its id tells for good.  No sequence of merges gives an entity the identifier of
\* another one unnoticed.
TwinsAreFlagged ==
    \A m, n \in DOMAIN records :
        Agreeing(records[m].company, records[n].company) # {} =>
            \/ records[m].company.id = records[n].company.id
            \/ "review" \in {records[m].company.id[1], records[n].company.id[1]}

\* While one run has found companies, none that the gate lets through makes
\* save_candidates raise, by a merge that it refuses or a key the run already
\* holds: such a company would lose the whole task, at every attempt.
SavesOfOneRunSucceed ==
    raised = "save" => \E n \in DOMAIN records : records[n].run # task.run

\* dedup.py:161: exact matches merge.  The identity is matched in every run, and
\* merged into the row of this run, which may show none of the keys that matched.
EverySaveSucceeds == raised # "save"

\* README.md:23-24: companies of one domain are consolidated.  Two pages of one
\* website are two identities of Brave, and the merge of them raises.
PagesOfOneSiteMerge == raised # "search"
=============================================================================
