------------------------------ MODULE MemoryMeter ------------------------------
(*****************************************************************************)
(* telemetry: MemoryMeter.  Every operation runs under the lock.  A series is*)
(* kept under its name and the text of its labels; the labels themselves are *)
(* remembered once per name and text, for counters, gauges and histograms    *)
(* together.                                                                 *)
(*                                                                           *)
(* Labels are a function from keys to values; a value is the sequence of its *)
(* characters, commas and equals signs included, since String does not quote *)
(* them.  Amounts are data.                                                  *)
(*****************************************************************************)
EXTENDS Integers, Sequences, Functions, SequencesExt

CONSTANTS
  Names,      \* metric names
  LabelSets,  \* labels that callers pass
  Amounts,    \* deltas and values
  MaxOps      \* bound on the operations

VARIABLES
  series,     \* [kind, name] -> label text -> value: counters, gauges, histograms
  labelKeys,  \* name -> label text -> labels
  log         \* history: the operations

vars == <<series, labelKeys, log>>

Kinds == {"counter", "gauge", "histogram"}
None == [x \in {} |-> x]

Init ==
  /\ series = [s \in Kinds \X Names |-> None]
  /\ labelKeys = [name \in Names |-> None]
  /\ log = <<>>

\* sort.Strings
Sorted == <<"component", "execution_mode", "operation", "provider", "request_id", "skill",
            "span_kind", "status", "stop_reason">>

allowedLabelKeys == Range(Sorted) \ {"request_id"}

\* "k=v" for every key in order, joined by commas.
String(labels) ==
  FoldLeft(LAMBDA text, k : IF k \notin DOMAIN labels THEN text
                            ELSE (IF text = <<>> THEN <<>> ELSE text \o <<",">>)
                                   \o <<k, "=">> \o labels[k],
           <<>>, Sorted)

\* Faulty: every key is kept.
filterNothing(labels) == labels

filterLabels(labels) == Restrict(labels, DOMAIN labels \intersect allowedLabelKeys)

With(f, x, y) == [z \in DOMAIN f \union {x} |-> IF z = x THEN y ELSE f[z]]

\* Only the first labels that have the text are remembered.
ensureLabelKey(name, lk, labels) ==
  labelKeys' = IF lk \in DOMAIN labelKeys[name] THEN labelKeys
               ELSE [labelKeys EXCEPT ![name] = With(@, lk, labels)]

Record(kind, name, amount, labels, new(_, _)) ==
  /\ Len(log) < MaxOps
  /\ LET kept == filterLabels(labels)
         lk == String(kept)
     IN  /\ ensureLabelKey(name, lk, kept)
         /\ series' = [series EXCEPT ![<<kind, name>>] = With(@, lk, new(@, lk))]
  /\ log' = Append(log, [kind |-> kind, name |-> name, amount |-> amount, labels |-> labels])

Counter(name, delta, labels) ==
  Record("counter", name, delta, labels,
         LAMBDA f, lk : delta + IF lk \in DOMAIN f THEN f[lk] ELSE 0)

Gauge(name, value, labels) == Record("gauge", name, value, labels, LAMBDA f, lk : value)

Histogram(name, value, labels) ==
  Record("histogram", name, value, labels,
         LAMBDA f, lk : Append(IF lk \in DOMAIN f THEN f[lk] ELSE <<>>, value))

\* The entries of a kind and a name, here still by their text.
Snapshot(kind, name) ==
  LET f == series[<<kind, name>>]
  IN  [lk \in DOMAIN f |-> [labels |-> labelKeys[name][lk], value |-> f[lk]]]

Done == Len(log) = MaxOps /\ UNCHANGED vars

Next ==
  \/ \E name \in Names, a \in Amounts, l \in LabelSets :
       Counter(name, a, l) \/ Gauge(name, a, l) \/ Histogram(name, a, l)
  \/ Done

Spec == Init /\ [][Next]_vars

-----------------------------------------------------------------------------
(* Properties.                                                               *)

\* The keys a caller may group by.
Allowed(labels) == Restrict(labels, DOMAIN labels \ {"request_id"})

\* The operations of a kind and a name under such labels, or under their text,
\* and what operations record together.
Of(kind, name) == {i \in DOMAIN log : log[i].kind = kind /\ log[i].name = name}
Under(kind, name, labels) == {i \in Of(kind, name) : Allowed(log[i].labels) = labels}
UnderText(kind, name, lk) == {i \in Of(kind, name) : String(Allowed(log[i].labels)) = lk}
Amount(kind, mine) ==
  LET after[n \in 0..Len(log)] ==
        IF n = 0 THEN IF kind = "histogram" THEN <<>> ELSE 0
        ELSE IF n \notin mine THEN after[n - 1]
        ELSE CASE kind = "counter" -> log[n].amount + after[n - 1]
               [] kind = "gauge" -> log[n].amount
               [] kind = "histogram" -> Append(after[n - 1], log[n].amount)
  IN  after[Len(log)]

LabelsOf(name) == {Allowed(log[i].labels) : i \in {j \in DOMAIN log : log[j].name = name}}
Ambiguous(name, labels) ==
  \E other \in LabelsOf(name) : other # labels /\ String(other) = String(labels)

\* A snapshot says what was recorded: for every name, kind and set of allowed
\* labels used, one entry with those labels and exactly what was recorded under
\* them, unless other labels of that name have the same text, because a value
\* holds a comma and an equals sign; then they are one series, under the labels
\* that came first.  No amount is lost even so: the entry of a text has all that
\* was recorded under it.  No two entries have the same labels.
SeriesTruthful ==
  \A name \in Names, kind \in Kinds :
    LET entries == Snapshot(kind, name)
        used == {Allowed(log[i].labels) : i \in Of(kind, name)}
    IN  /\ \A x, y \in DOMAIN entries : entries[x].labels = entries[y].labels => x = y
        /\ \A lk \in DOMAIN entries :
             /\ entries[lk].labels \in LabelsOf(name)
             /\ entries[lk].value = Amount(kind, UnderText(kind, name, lk))
        /\ \A labels \in used :
             \E lk \in DOMAIN entries :
               /\ lk = String(labels)
               /\ ~Ambiguous(name, labels) =>
                    entries[lk] = [labels |-> labels, value |-> Amount(kind, Under(kind, name, labels))]
=============================================================================
