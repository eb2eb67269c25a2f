------------------------------- MODULE Discovery -------------------------------
(***************************************************************************)
(* internal/scan and the assembly of layers: which files of a directory    *)
(* tree a reload reads, in which order they are merged, and the            *)
(* directories it asks the watcher for.  A site is                         *)
(*   [strict, profile, match, env, axes, others]   options and environment *)
(*   [meta, bases, listing, overlays, extra]       the files               *)
(* A directory is [state, files], its files in lexical order and by what   *)
(* they are.  overlays are in lexical order: [name, hidden, meta, dir].    *)
(***************************************************************************)
EXTENDS ProfileExpr, FiniteSetsExt

CONSTANTS Sites, DirContents,      \* the inputs, and what a directory may hold
          BandFileBase, BandFileOverlay, BandAxis, bandFileEnd, overlayStride

ASSUME BandsAssumption ==
  /\ BandFileBase < BandFileOverlay /\ BandFileOverlay < BandAxis /\ BandAxis < bandFileEnd
  /\ (BandAxis - BandFileOverlay) % overlayStride = 0
  /\ (bandFileEnd - BandAxis) % overlayStride = 0

VARIABLES site,     \* the input of the reload
          found     \* what it assembles: [err, layers, dirs], NotScanned before

scanVars == <<site, found>>

NothingFound == [err |-> FALSE, layers |-> <<>>, dirs |-> <<>>]
NotScanned == [NothingFound EXCEPT !.dirs = <<<<"none">>>>]

Failed(r) == [r EXCEPT !.err = TRUE]
Announce(r, dir) == [r EXCEPT !.dirs = Append(@, dir)]

------------------------------------------------------------------------------
ActiveProfiles(p, meta, env) ==
  LET var == IF p.env # "" THEN p.env ELSE IF meta.profileEnv # "" THEN meta.profileEnv ELSE "APP_PROFILE"
  IN  CASE p.names # {} -> p.names
        [] p.names = {} /\ env[var] # {} -> env[var]
        [] p.names = {} /\ env[var] = {} /\ p.default # "" -> {p.default}
        [] OTHER -> {meta.default} \ {""}

\* What ApplyTo makes of the options: metadata only ever adds strictness.
Options(s) ==
  [strict |-> s.strict \/ s.meta.strict,
   base |-> IF s.meta.baseDir # "" THEN s.meta.baseDir ELSE "base",
   profiles |-> ActiveProfiles(s.profile, s.meta, s.env)]

Ranked(specs) == LET Prios == {specs[i].priority : i \in DOMAIN specs}
                 IN  FlattenSeq([n \in 1 .. (IF Prios = {} THEN 0 ELSE Max(Prios)) |->
                                   SelectSeq(specs, LAMBDA a : a.priority = n)])

\* Mistake: an empty variable is taken for one that is not set.
AxisValueEmpty(ax, host) ==
  CASE ax.env \notin {"unset", ""} -> ax.env
    [] ax.env \in {"unset", ""} /\ ax.fromHostname /\ host # "fails" -> host
    [] OTHER -> ""

\* The directory an axis selects: "" for none.
AxisValue(ax, host) ==
  CASE ax.env \notin {"unset", ""} -> ax.env
    [] ax.env = "unset" /\ ax.fromHostname /\ host # "fails" -> host
    [] OTHER -> ""

\* The rank counts the axes that select nothing.
ResolveAxes(specs, host) ==
  LET s == Ranked(specs)
      all == [i \in DOMAIN s |-> [dir |-> <<s[i].dir, AxisValue(s[i], host)>>,
                                  priority |-> BandAxis + (i - 1) * overlayStride]]
  IN  SelectSeq(all, LAMBDA a : a.dir[2] \notin {"", ".."})

------------------------------------------------------------------------------
Layer(dir, i, prio) == [class |-> 0, dir |-> dir, file |-> i, prio |-> prio]

\* classify and readRegularFile by what they make of a file.
Usable(f) == f \in {"merge", "patch"}
Fatal(f, strict) == f = "unreadable" \/ (strict /\ f \in {"unknown", "irregular"})

Added(r, dir, d, base, width, required, strict, new) ==
  IF d.state = "absent" /\ ~(required /\ strict) THEN r
  ELSE IF d.state # "present" \/ (\E i \in DOMAIN d.files : Fatal(d.files[i], strict)) \/ Len(new) > width
       THEN Failed(r)
  ELSE [r EXCEPT !.layers = @ \o [j \in DOMAIN new |-> Layer(dir, new[j], base + j - 1)]]
UsableFiles(d) == SelectSeq([i \in DOMAIN d.files |-> i], LAMBDA i : Usable(d.files[i]))

\* Mistake: a directory is announced once it is there to be read.
CollectDirLate(r, dir, d, base, width, required, strict) ==
  Added(IF d.state = "absent" THEN r ELSE Announce(r, dir), dir, d, base, width, required, strict, UsableFiles(d))

\* What a directory contributes, within its window of priorities.
CollectDir(r, dir, d, base, width, required, strict) ==
  Added(Announce(r, dir), dir, d, base, width, required, strict, UsableFiles(d))

\* meta.match is empty without metadata or without an expression in it.
OverlayMatches(o, active) ==
  CASE o.meta.bad -> "error"
    [] ~o.meta.bad /\ o.meta.match = <<>> -> IF o.name \in active THEN "yes" ELSE "no"
    [] OTHER -> Eval(o.meta.match, active)

NextBand(acc) == [acc EXCEPT !.base = @ + overlayStride]

\* Mistake: the windows run on into the next band.
CollectMatchedUnbounded(acc, o, s, opt, matched) ==
  IF matched = "error" THEN Failed(acc)
  ELSE IF matched = "no" THEN acc
  ELSE NextBand(CollectDir(acc, <<o.name>>, o.dir, acc.base, overlayStride, FALSE, opt.strict))

\* The overlay joins unless it does not match or the global filter leaves it out.
CollectMatched(acc, o, s, opt, matched) ==
  IF matched = "error" \/ (matched = "yes" /\ acc.base >= BandAxis) THEN Failed(acc)
  ELSE IF matched = "no" THEN acc
  ELSE NextBand(CollectDir(acc, <<o.name>>, o.dir, acc.base, overlayStride, FALSE, opt.strict))

Filtered(s, opt, o, matched) ==
  IF matched = "yes" /\ s.match # <<>> THEN Eval(s.match, opt.profiles \cup {o.name}) ELSE matched
CollectOverlay(acc, o, s, opt) ==
  IF acc.err \/ o.hidden THEN acc
  ELSE CollectMatched(acc, o, s, opt, Filtered(s, opt, o, OverlayMatches(o, opt.profiles)))

WithoutBase(acc) == [err |-> acc.err, layers |-> acc.layers, dirs |-> acc.dirs]
CollectProfileOverlays(r, s, opt) ==
  IF s.listing = "absent" THEN r
  ELSE IF s.listing = "error" \/ (s.match # <<>> /\ Eval(s.match, opt.profiles) = "error") THEN Failed(r)
  ELSE WithoutBase(FoldLeft(LAMBDA a, o : CollectOverlay(a, o, s, opt), r @@ [base |-> BandFileOverlay], s.overlays))

CollectAxis(r, extra, s, opt) ==
  IF r.err THEN r
  ELSE IF extra.priority > bandFileEnd - overlayStride THEN Failed(r)
  ELSE CollectDir(r, extra.dir, s.extra[extra.dir], extra.priority, overlayStride, FALSE, opt.strict)

ScanOverlays(r, s, opt) ==
  IF r.err \/ opt.profiles = {} THEN r ELSE CollectProfileOverlays(Announce(r, <<"overlays">>), s, opt)

Scan(s, opt) ==
  FoldLeft(LAMBDA r, e : CollectAxis(r, e, s, opt),
           ScanOverlays(CollectDir(NothingFound, <<opt.base>>, s.bases[opt.base], BandFileBase,
                                   BandFileOverlay - BandFileBase, TRUE, opt.strict), s, opt),
           ResolveAxes(s.axes, s.host))

------------------------------------------------------------------------------
CompareLayers(a, b) == a.class < b.class \/ (a.class = b.class /\ a.prio < b.prio)

\* Each layer goes behind every layer that does not come after it.
StableSort(layers) ==
  FoldLeft(LAMBDA sorted, l :
             InsertAt(sorted, 1 + Cardinality({i \in DOMAIN sorted : ~CompareLayers(l, sorted[i])}), l),
           <<>>, layers)

\* File layers, then generators, providers and overrides as they were declared.
StageAll(r, others) ==
  CASE r.err -> [r EXCEPT !.layers = <<>>]
    [] ~r.err /\ r.layers \o others = <<>> -> Failed(r)
    [] OTHER -> [r EXCEPT !.layers = StableSort(@ \o others)]
Assemble(s) == StageAll(IF s.meta.bad THEN Failed(NothingFound) ELSE Scan(s, Options(s)), s.others)

ScanInit == site \in Sites /\ found = NotScanned
Discover == found = NotScanned /\ found' = Assemble(site) /\ UNCHANGED site

------------------------------------------------------------------------------
Scanned == found # NotScanned
FileLayers == {i \in DOMAIN found.layers : found.layers[i].class = 0}

\* An expression is accepted exactly when the grammar has it, and then means what
\* the grammar says: ! before & before |, parentheses first (Compile).
ExprFollowsGrammar ==
  \A e \in {site.match} \cup {site.overlays[i].meta.match : i \in DOMAIN site.overlays} :
    ExprMeaning(e) = IF Compile(e) = ParseError THEN {} ELSE {Compile(e).fn}

Chosen(o) ==
  LET active == Options(site).profiles
      accepts(e, set) == \E f \in ExprMeaning(e) : set \in f
  IN  /\ ~o.hidden /\ accepts(site.match, active \cup {o.name})
      /\ IF o.meta.match = <<>> THEN o.name \in active ELSE accepts(o.meta.match, active)

AxisPicks(ax, v) ==
  \/ ax.env = v /\ v # "unset"
  \/ ax.env = "unset" /\ ax.fromHostname /\ site.host = v /\ v # "fails"

\* The directories a reload has to read, by the documented selection rules.
Selected ==
  {[dir |-> <<Options(site).base>>, d |-> site.bases[Options(site).base]]}
    \cup (IF Options(site).profiles = {} \/ site.listing # "present" THEN {}
          ELSE {[dir |-> <<o.name>>, d |-> o.dir] : o \in {x \in Range(site.overlays) : Chosen(x)}})
    \cup {[dir |-> k, d |-> site.extra[k]]
          : k \in {j \in DOMAIN site.extra : \E i \in DOMAIN site.axes :
                      site.axes[i].dir = j[1] /\ AxisPicks(site.axes[i], j[2])}}

\* A reload that succeeds reads every configuration file of every selected directory
\* and no other: nothing is skipped because of a band, a name or a missing variable.
ReadsWhatIsSelected ==
  Scanned /\ ~found.err =>
    {[dir |-> found.layers[i].dir, file |-> found.layers[i].file] : i \in FileLayers} =
      UNION {{[dir |-> x.dir, file |-> i] : i \in {j \in DOMAIN x.d.files : Usable(x.d.files[j])}}
             : x \in {y \in Selected : y.d.state = "present"}}

Depth(dir) ==
  CASE dir = <<Options(site).base>> -> <<0, 0, 0>>
    [] Len(dir) = 1 /\ dir[1] \in ProfileNames ->
         <<1, CHOOSE i \in DOMAIN site.overlays : site.overlays[i].name = dir[1], 0>>
    [] OTHER -> LET i == CHOOSE j \in DOMAIN site.axes : site.axes[j].dir = dir[1]
                IN  <<2, site.axes[i].priority, i>>
Precedence(l) == IF l.class = 0 THEN <<0>> \o Depth(l.dir) \o <<l.file>> ELSE <<l.class, l.prio, 0, 0, 0>>
Below(a, b) == \E n \in 1 .. 5 : a[n] < b[n] /\ \A m \in 1 .. n - 1 : a[m] = b[m]

\* Layers are merged in the documented order however full the bands are: base, then
\* overlays by name, then axes by priority and declaration, files by name; then
\* generators, providers and overrides, whatever priorities they ask for.
MergeOrder ==
  Scanned /\ ~found.err =>
    /\ \A i, j \in DOMAIN found.layers :
         i < j => ~Below(Precedence(found.layers[j]), Precedence(found.layers[i]))
    /\ \A i, j \in FileLayers : i < j => found.layers[i].prio < found.layers[j].prio

\* The sites that differ from this one in one directory the reload did not announce.
\* Metadata inside an overlay that does not match is read without being announced.
Elsewhere ==
  LET unseen(d) == d \notin Range(found.dirs)
  IN  {[site EXCEPT !.bases[d] = x] : d \in {e \in DOMAIN site.bases : unseen(<<e>>)}, x \in DirContents}
        \cup {[site EXCEPT !.extra[d] = x] : d \in {e \in DOMAIN site.extra : unseen(e)}, x \in DirContents}
        \cup {[site EXCEPT !.overlays[i].dir = x]
              : i \in {k \in DOMAIN site.overlays : unseen(<<site.overlays[k].name>>)}, x \in DirContents}
        \cup {[site EXCEPT !.listing = l] : l \in IF unseen(<<"overlays">>) THEN {"absent", "error"} ELSE {}}

\* Whatever a reload's outcome depends on is in a directory it announced, present or
\* not, so that a watcher of those directories notices when the outcome changes.
AnnouncedDirsDecide == Scanned => \A t \in Elsewhere : Assemble(t) = found

\* A reload reads the files its options, expressions and environment select, in the order
\* of their bands, and announces every directory that decided it (Scan, assemble).
LayersFollowSite == ExprFollowsGrammar /\ ReadsWhatIsSelected /\ MergeOrder /\ AnnouncedDirsDecide
=============================================================================
