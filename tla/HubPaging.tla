------------------------------ MODULE HubPaging ------------------------------
(***************************************************************************)
(* The paginated loaders of app/hub/worker.py reading a provider that keeps *)
(* issuing records while it is read.                                        *)
(*                                                                          *)
(* A record is its issue number; the provider lists the newest first, so a  *)
(* record issued between two requests moves every older one down.  The      *)
(* provider is modelled from what the loaders expect of it: it may cap      *)
(* per_page, it may ignore the page number, and its envelope may carry the  *)
(* number of the last page, a "next" key, a "next_page" key, or nothing.    *)
(***************************************************************************)
EXTENDS Integers, FiniteSets, Sequences, SequencesExt

CONSTANTS PerPage,       \* records a loader asks for
          MaxPages,      \* max_pages, the safety limit of every loader
          MaxRecords,    \* bound: records the provider holds at the start
          MaxIssued,     \* bound: records issued during one load
          Envelopes      \* kinds of envelope the provider may use

ASSUME PagingAssumption ==
    /\ PerPage \in Nat \ {0}
    /\ MaxPages \in Nat \ {0}
    /\ MaxRecords \in Nat
    /\ MaxIssued \in Nat
    /\ Envelopes \subseteq {"bare", "last_page", "next", "next_page"}

\* The loaders that differ in how they stop.
Loaders == {"rows", "inbox", "collection", "documents"}

VARIABLES provider,   \* [size, held, envelope, ignores]: what answers the requests
          held,       \* records the provider holds now
          load        \* [kind, page, rows, seen, expected, status] of the loader

pagingVars == <<provider, held, load>>

Providers == [size : 1 .. PerPage, held : 0 .. MaxRecords,
              envelope : Envelopes, ignores : BOOLEAN]

PagingInit ==
    /\ provider \in Providers
    /\ held = provider.held
    /\ \E kind \in Loaders :
          load = [kind |-> kind, page |-> 1, rows |-> <<>>, seen |-> {},
                  expected |-> 0, status |-> "loading"]

\* The number of the page the provider serves for a request.
Served(page) == IF provider.ignores THEN 1 ELSE page

LastPage == (held + provider.size - 1) \div provider.size

\* The rows of a page, newest first.
PageRows(page) ==
    LET newest == held - (Served(page) - 1) * provider.size
        oldest == newest - provider.size + 1
    IN [i \in 1 .. (newest - (IF oldest > 1 THEN oldest ELSE 1) + 1) |-> newest + 1 - i]

\* What the envelope says of what follows the page.
HasNext(page) == Served(page) < LastPage

\* Mutant: the last page is the one before the number given.
ExplicitLastEarly(page) ==
    \/ provider.envelope = "last_page" /\ LastPage # 0 /\ page >= LastPage - 1
    \/ provider.envelope = "next" /\ ~HasNext(page)
    \/ provider.envelope = "next_page"

\* A last page number of 0 is falsy and does not count.  The test of "next"
\* looks for any of three keys but reads only the first: an envelope that
\* carries "next_page" alone always looks like the last page.
IsExplicitLastPage(page) ==
    \/ provider.envelope = "last_page" /\ LastPage # 0 /\ page >= LastPage
    \/ provider.envelope = "next" /\ ~HasNext(page)
    \/ provider.envelope = "next_page"

\* Mutant: a page that was already read counts as a new one.
SeenNever(rows) == FALSE

\* The fingerprint of the rows is that of an earlier page.
Seen(rows) == rows \in load.seen

ShorterThanFirst(rows) == load.expected # 0 /\ Len(rows) < load.expected

ShorterThanAsked(rows) == Len(rows) < PerPage

\* One request, from the page asked for to the decision to go on: an empty or
\* repeated page ends the load without its rows, the last one with them.
ReadPage(repeated, short(_)) ==
    LET rows == PageRows(load.page)
        last == IsExplicitLastPage(load.page) \/ short(rows)
    IN /\ load.status = "loading"
       /\ load' = IF rows = <<>> \/ (repeated /\ Seen(rows))
                  THEN [load EXCEPT !.status = "done"]
                  ELSE [load EXCEPT !.rows = @ \o rows,
                                    !.seen = @ \cup {rows},
                                    !.expected = IF @ = 0 THEN Len(rows) ELSE @,
                                    !.page = @ + 1,
                                    !.status = IF last THEN "done"
                                               ELSE IF load.page = MaxPages THEN "limit"
                                               ELSE @]
       /\ UNCHANGED <<provider, held>>

ReadRows == load.kind = "rows" /\ ReadPage(TRUE, ShorterThanFirst)

ReadInbox == load.kind = "inbox" /\ ReadPage(TRUE, ShorterThanFirst)

\* Payments and receivables compare a page with what they asked for.
ReadCollection == load.kind = "collection" /\ ReadPage(TRUE, ShorterThanAsked)

\* The financial documents keep no fingerprint and no page size.
ReadDocuments ==
    load.kind = "documents" /\ ReadPage(FALSE, LAMBDA rows : FALSE)

\* The request raises: the exception leaves the loader and its rows are lost.
PageFails ==
    /\ load.status = "loading"
    /\ load' = [load EXCEPT !.status = "raised", !.rows = <<>>]
    /\ UNCHANGED <<provider, held>>

\* The provider issues a record between two requests.
Issue ==
    /\ load.status = "loading"
    /\ held < provider.held + MaxIssued
    /\ held' = held + 1
    /\ UNCHANGED <<provider, load>>

PagingNext ==
    ReadRows \/ ReadInbox \/ ReadCollection \/ ReadDocuments \/ PageFails \/ Issue

PagingSpec == PagingInit /\ [][PagingNext]_pagingVars

-----------------------------------------------------------------------------
\* A provider that pages as it was asked to, and whose listing moved by less
\* than a page: one that moved by a whole page repeats the last page, which
\* ends the load.  Only load_paginated_records and the inbox loader cope with a
\* provider that caps per_page.
Pages ==
    /\ ~provider.ignores
    /\ held - provider.held < provider.size
    /\ load.kind = "collection" => provider.size = PerPage

\* A load that ended by itself holds every record that existed when it began,
\* whatever the envelope and however the listing moved meanwhile, by
\* less than a page: "Load every provider page without trusting one specific
\* pagination envelope" (app/hub/worker.py:845).
LoadsEveryRecord ==
    load.status = "done" /\ Pages => 1 .. provider.held \subseteq ToSet(load.rows)

\* A record is taken twice only where the listing moved under the loader; a
\* provider that ignores the page number costs one repeated page and no row.
\* The loader of documents compares no pages and is not covered.
TakesEachRecordOnce ==
    load.kind # "documents" /\ held = provider.held =>
        Len(load.rows) = Cardinality(ToSet(load.rows))
=============================================================================
