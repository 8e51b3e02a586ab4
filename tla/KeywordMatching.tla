--------------------------- MODULE KeywordMatching ---------------------------
(***************************************************************************)
(* A station's keyword index and the scan of a transcript against it       *)
(* (services/keyword_index.py, services/keyword_matcher.py and             *)
(* _build_result() of services/transcription.py).                          *)
(*                                                                         *)
(* All the keywords of a station become the patterns of one Aho-Corasick   *)
(* automaton; a transcript is joined from the segments of the decoder that *)
(* are believed, normalised, read once by the automaton, and what is found *)
(* is mapped back to the original characters and thinned out.              *)
(*                                                                         *)
(* Two campaigns never share a keyword id: a binding is a keyword of one   *)
(* campaign (desired_bindings).  Fuzzy matching, which nothing enables,    *)
(* and the languages of aliases are left out.                              *)
(***************************************************************************)
EXTENDS TextNormalization, FiniteSets

CONSTANTS
    Keywords,   \* bindings: [id, value, strict, tokens, aliases]
    Alphabet,   \* bound of the model: the symbols of a transcript
    MaxSegment, \* bound of the model: the length of a decoded segment
    MaxKeywords \* bound of the model: the keywords of an index

\* A keyword's aliases are set apart from its value by build_entry() and
\* surface_forms(): the first of equal values counts.
ASSUME KeywordAssumption ==
    /\ IsFiniteSet(Keywords)
    /\ \A b \in Keywords :
          /\ b.value \in Seq(Glyphs) /\ b.strict \in BOOLEAN /\ b.tokens \in BOOLEAN
          /\ \A a \in b.aliases :
                /\ a.value \in Seq(Glyphs) \ {b.value}
                /\ a.kind \in {"alias", "translation", "phonetic"}
    /\ \A b1, b2 \in Keywords : b1.id = b2.id => b1 = b2
    /\ Alphabet \subseteq Glyphs
    /\ {MaxSegment, MaxKeywords} \subseteq Nat

VARIABLES
    entries,   \* the bindings of the index
    terms,     \* IndexTerms: normal form, kind, owners, whole words only
    automaton, \* AhoCorasick: nodes, failure links and outputs
    spoken,    \* the segments of the transcript, each with its number
    normal,    \* the transcript in normal form
    node,      \* where find() is in the automaton
    read,      \* and in the text
    found,     \* matches so far
    report     \* what _deduplicate() keeps, once the text is read

index == <<entries, terms, automaton>>
scan == <<spoken, normal, node, read, found, report>>
textVars == <<index, scan>>

Root == << >>
NotYet == {Root}

TextInit ==
    /\ entries = {} /\ terms = {} /\ automaton = [nodes |-> {Root}]
    /\ spoken = << >> /\ normal = << >> /\ node = Root /\ read = 0 /\ found = {} /\ report = NotYet

-----------------------------------------------------------------------------
\* surface_forms()
Forms(b) == {[value |-> b.value, kind |-> "canonical"]} \cup b.aliases

\* build_index(): a normal form and kind is one term, whoever wants it.  If any
\* owner needs substring matching, the term must allow it.
WholeWordsFor(owners) == \A b \in owners : b.tokens

Terms(bindings) ==
    LET keys == UNION {{[symbols |-> n, kind |-> f.kind] : n \in VariantKeys(f.value)} :
                          f \in UNION {Forms(b) : b \in bindings}}
        owners(key) == {b \in bindings : \E f \in Forms(b) :
                            f.kind = key.kind /\ key.symbols \in VariantKeys(f.value)}
    IN  {[symbols |-> key.symbols, kind |-> key.kind, owners |-> owners(key),
          words |-> WholeWordsFor(owners(key))] : key \in keys}

\* AhoCorasick.__init__(): the trie; a node is the prefix it spells.
Nodes(patterns) == {Root} \cup UNION {Prefixes(p) : p \in patterns}

\* The while loops of _build_failure_links() and find(): back along the links
\* until the symbol leads on, then along it.
Step(nodes, fail, from, c) ==
    LET back[n \in DOMAIN fail] == IF n # Root /\ Append(n, c) \notin nodes THEN back[fail[n]] ELSE n
        next == Append(back[from], c)
    IN  IF next \in nodes THEN next ELSE Root

\* _build_failure_links(): breadth first, so that a node's link is found with
\* those of the nodes above it.
FailureLinks(nodes) ==
    LET fail[n \in nodes] ==
            LET above == [m \in {x \in nodes : Len(x) < Len(n)} |-> fail[m]]
            IN  IF Len(n) <= 1 THEN Root ELSE Step(nodes, above, above[Front(n)], Last(n))
    IN  fail

\* A node outputs its own pattern and what its failure link outputs.
Outputs_OwnOnly(nodes, fail, patterns) == [n \in nodes |-> patterns \cap {n}]
Outputs(nodes, fail, patterns) ==
    LET output[n \in nodes] ==
            (patterns \cap {n}) \cup (IF n = Root THEN {} ELSE output[fail[n]])
    IN  output

\* compile_index()
Compile(bindings) ==
    LET patterns == {t.symbols : t \in Terms(bindings)}
        nodes == Nodes(patterns)
        fail == FailureLinks(nodes)
    IN  /\ entries = {} /\ bindings # {}
        /\ entries' = bindings
        /\ terms' = Terms(bindings)
        /\ automaton' = [nodes |-> nodes, fail |-> fail, output |-> Outputs(nodes, fail, patterns)]
        /\ UNCHANGED scan

-----------------------------------------------------------------------------
\* The text of a transcript: its segments joined by a space.
Joined(segments) ==
    IF Len(segments) = 1 THEN segments[1].text
    ELSE segments[1].text \o <<"-">> \o segments[2].text
Text == Joined(spoken)

\* _build_result(): a segment that is taken for silence or for a loop of the
\* decoder is dropped; match() then starts on what is left, here the segments
\* of the decoder with the numbers in kept.
Decode(kept, segments) ==
    /\ entries # {} /\ spoken = << >>
    /\ spoken' = [i \in DOMAIN kept |-> [number |-> kept[i], text |-> segments[i]]]
    /\ normal' = Normalize(Joined(spoken'))
    /\ UNCHANGED <<index, node, read, found, report>>

\* Timeline.span_ms(): the segments in which characters from .. to were said.
SaidIn(from, to) ==
    LET second == Len(spoken[1].text) + 2
    IN  {spoken[i].number : i \in {j \in DOMAIN spoken :
            IF j = 1 THEN from < second - 1 ELSE to >= second}}

\* "Translated equivalents are refused outright" for named entities.
KindAllowed(b, kind) == ~(b.strict /\ kind = "translation")

\* LEVEL_CONFIDENCE of ALIAS_KIND_LEVELS, in hundredths.
Confidence(kind) == IF kind = "canonical" THEN 100 ELSE IF kind = "phonetic" THEN 50 ELSE 95

\* _scan_exact() and _emit() for a pattern that ends at a position.
Hits(pattern, to) ==
    LET from == to - Len(pattern) + 1
        span == OriginalSpan(normal, from, to)
        owned == {t \in terms : /\ t.symbols = pattern
                                /\ t.words => SpansWords(Symbols(normal), from, to)}
    IN  UNION {{[keyword |-> b.id, from |-> span[1], to |-> span[2], kind |-> t.kind,
                 segments |-> SaidIn(span[1], span[2])] :
                   b \in {o \in t.owners : KindAllowed(o, t.kind)}} : t \in owned}

\* One turn of the loop of find().
ReadSymbol ==
    LET c == normal[read + 1].symbol
        next == Step(automaton.nodes, automaton.fail, node, c)
    IN  /\ spoken # << >> /\ read < Len(normal)
        /\ node' = next
        /\ read' = read + 1
        /\ found' = found \cup UNION {Hits(p, read + 1) : p \in automaton.output[next]}
        /\ UNCHANGED <<index, spoken, normal, report>>

Length(m) == m.to - m.from
Overlaps(m1, m2) == m1.from <= m2.to /\ m2.from <= m1.to

\* The order of _deduplicate(): the longest first, then the surest, then the
\* first; the kind only settles what the code leaves to the order it came in.
Outranks(m1, m2) ==
    \/ Length(m1) > Length(m2)
    \/ /\ Length(m1) = Length(m2)
       /\ \/ Confidence(m1.kind) > Confidence(m2.kind)
          \/ Confidence(m1.kind) = Confidence(m2.kind) /\ m1.from < m2.from

\* _deduplicate(): no match of a keyword overlaps one that is kept.
Thinned(matches) ==
    LET thin[S \in SUBSET matches] ==
            IF S = {} THEN {}
            ELSE LET best == CHOOSE m \in S : \A n \in S : ~Outranks(n, m)
                 IN  {best} \cup thin[{m \in S : m.keyword # best.keyword \/ ~Overlaps(m, best)} \ {best}]
    IN  thin[matches]

Report ==
    /\ spoken # << >> /\ report = NotYet
    /\ read = Len(normal)
    /\ report' = Thinned(found)
    /\ UNCHANGED <<index, spoken, normal, node, read, found>>

\* The compiled index stays for the next transcript.
NextTranscript ==
    /\ report # NotYet
    /\ spoken' = << >> /\ normal' = << >> /\ node' = Root /\ read' = 0 /\ found' = {} /\ report' = NotYet
    /\ UNCHANGED index

Segments == UNION {[1 .. n -> Alphabet] : n \in 1 .. MaxSegment}

TextNext ==
    \/ \E bindings \in SUBSET Keywords : Cardinality(bindings) <= MaxKeywords /\ Compile(bindings)
    \/ \E kept \in {<<1>>, <<2>>, <<1, 2>>} : \E segments \in [DOMAIN kept -> Segments] :
          Decode(kept, segments)
    \/ ReadSymbol
    \/ Report
    \/ NextTranscript

TextSpec == TextInit /\ [][TextNext]_textVars

-----------------------------------------------------------------------------
\* Where keyword b is in the transcript, told without terms and automaton: the
\* symbols of one of its forms, as whole words if that is what it asks for.
Occurrences(b) ==
    LET symbols == Symbols(normal)
        Said(form, from, to) ==
            /\ SubSeq(symbols, from, to) \in VariantKeys(form.value)
            /\ b.tokens => SpansWords(symbols, from, to)
    IN  {OriginalSpan(normal, p[1], p[2]) :
            p \in {q \in (DOMAIN symbols) \X (DOMAIN symbols) :
                      /\ q[1] <= q[2]
                      /\ \E form \in Forms(b) : KindAllowed(b, form.kind) /\ Said(form, q[1], q[2])}}

\* The reported characters, as they were said, are one of the keyword's forms.
Verbatim(m, b) ==
    LET said == Symbols(NormalizeWith(SubSeq(Text, m.from, m.to), ~MarksAreSignificant(Text)))
    IN  \E form \in Forms(b) : \E key \in VariantKeys(form.value) : key \in SubSeqs(said)

\* The segments that have the characters, found one by one.
Origin(m) ==
    LET before == Len(spoken[1].text)
    IN  {spoken[i].number : i \in {j \in DOMAIN spoken :
            \E at \in m.from .. m.to : IF j = 1 THEN at <= before ELSE at > before + 1}}

(* A transcript that has been scanned: whatever other keywords share the     *)
(* index, every occurrence of a keyword is reported, by a match at least as  *)
(* long that overlaps it; no two matches of a keyword overlap, so that "a    *)
(* single utterance is not counted twice" (keyword_matcher.py:552); and a    *)
(* match quotes characters of the original text that say the keyword, with   *)
(* the segments they were said in.                                           *)
EveryUtteranceOnce ==
    report # NotYet =>
        \A b \in entries :
            LET mine == {m \in report : m.keyword = b.id}
            IN  /\ \A o \in Occurrences(b) : \E m \in mine :
                      m.from <= o[2] /\ o[1] <= m.to /\ Length(m) >= o[2] - o[1]
                /\ \A m1, m2 \in mine : Overlaps(m1, m2) => m1 = m2
                /\ \A m \in mine : Verbatim(m, b) /\ m.segments = Origin(m)
=============================================================================
