-------------------------------- MODULE Sources --------------------------------
(***************************************************************************)
(* Which sources an identify task names                                    *)
(* (internal/stash/identify_sources.go): what the settings name, or else   *)
(* what Stash's configuration offers.                                      *)
(*                                                                         *)
(* A text is a number, 0 an empty or blank one.  Stash's answer is a       *)
(* record; answer.ok is FALSE if there is none, for want of credentials or *)
(* because the query failed.                                               *)
(***************************************************************************)
EXTENDS Lists

uniqueNonEmpty(values) ==
  LET keep(kept, v) == IF v = 0 \/ v \in ToSet(kept) THEN kept ELSE Append(kept, v)
  IN FoldLeft(keep, <<>>, values)

Field(name, items) == [i \in DOMAIN items |-> items[i][name]]

(* The default sources of Stash's own identify dialog. *)
identifySourcesFromDefaults(answer) ==
  [endpoints |-> uniqueNonEmpty(Field("endpoint", answer.defaults)),
   scrapers |-> uniqueNonEmpty(Field("scraper", answer.defaults))]

(* By name.  Two of one name keep their order, which slices.SortFunc       *)
(* leaves open; nothing below depends on it.                               *)
Named(scrapers, i, j) ==
  \/ scrapers[i].name < scrapers[j].name
  \/ scrapers[i].name = scrapers[j].name /\ i < j
ByName(scrapers) ==
  LET order == InOrder(DOMAIN scrapers, LAMBDA i, j : Named(scrapers, i, j))
  IN [n \in DOMAIN order |-> scrapers[order[n]]]

(* The scene scrapers that work on a fragment, by name.  A faulty variant  *)
(* takes all scrapers.                                                     *)
AllScrapers(scrapers) == uniqueNonEmpty(Field("id", ByName(scrapers)))
discoverFragmentSceneScrapers(scrapers) ==
  uniqueNonEmpty(Field("id", ByName(Passing(scrapers, {s \in ToSet(scrapers) : s.fragment}))))

NoSources == [endpoints |-> <<>>, scrapers |-> <<>>]

discoverIdentifySources(answer) ==
  LET defaults == identifySourcesFromDefaults(answer) IN
  IF ~answer.ok THEN NoSources
  ELSE IF defaults # NoSources THEN defaults
  ELSE [endpoints |-> uniqueNonEmpty(answer.boxes),
        scrapers |-> discoverFragmentSceneScrapers(answer.scrapers)]

(* The settings' own sources (numbers of stash boxes, endpoints, scrapers) *)
(* are taken as they are; a failed discovery is an error.                  *)
HasIdentifySources(cfg) == cfg.indexes # <<>> \/ cfg.endpoints # <<>> \/ cfg.scrapers # <<>>

resolveIdentifyConfig(cfg, answer) ==
  IF HasIdentifySources(cfg) THEN [ok |-> TRUE, cfg |-> cfg]
  ELSE LET found == discoverIdentifySources(answer) IN
       [ok |-> found # NoSources,
        cfg |-> [cfg EXCEPT !.endpoints = found.endpoints, !.scrapers = found.scrapers]]

-----------------------------------------------------------------------------
(* What the documentation promises to discover in an answer. *)
SomeDefault(defaults) ==
  \E i \in DOMAIN defaults : defaults[i].endpoint # 0 \/ defaults[i].scraper # 0
PromisedEndpoints(answer) ==
  IF SomeDefault(answer.defaults) THEN {d.endpoint : d \in ToSet(answer.defaults)}
  ELSE ToSet(answer.boxes)
PromisedScrapers(answer) ==
  IF SomeDefault(answer.defaults) THEN {d.scraper : d \in ToSet(answer.defaults)}
  ELSE {s.id : s \in {x \in ToSet(answer.scrapers) : x.fragment}}

(* SourcesAsDocumented: README.md:173: identify discovers sources only     *)
(* when the settings name none, takes Stash's default identify sources,    *)
(* and only if those are empty the stash boxes and the scene scrapers that *)
(* support fragments; each once, and never none (identify_sources.go:12-   *)
(* 59, 127-142).                                                           *)
SourcesAsDocumented(cfg, answer) ==
  LET resolved == resolveIdentifyConfig(cfg, answer)
      asked == ~HasIdentifySources(cfg)
      endpoints == PromisedEndpoints(answer) \ {0}
      scrapers == PromisedScrapers(answer) \ {0}
  IN /\ ~asked => resolved.ok /\ resolved.cfg = cfg
     /\ asked => (resolved.ok <=> answer.ok /\ endpoints \cup scrapers # {})
     /\ asked /\ answer.ok =>
          /\ ToSet(resolved.cfg.endpoints) = endpoints
          /\ ToSet(resolved.cfg.scrapers) = scrapers
          /\ IsInjective(resolved.cfg.endpoints) /\ IsInjective(resolved.cfg.scrapers)
===============================================================================
