--------------------------- MODULE DeviceModelsApi ---------------------------
(***************************************************************************)
(* The HTTP API (internal/api): a client that reads the device models page *)
(* by page, following the link each answer has, or asks for some by id.    *)
(*                                                                         *)
(* A device model is a number, its rank among the device types, which are  *)
(* distinct.  The service keeps the models in a map, so every request      *)
(* lists them in an order of its own before it sorts them.                 *)
(***************************************************************************)
EXTENDS Integers, Sequences, SequencesExt, FiniteSetsExt

CONSTANTS
    Models,     \* the ids of the device models
    Limits,     \* the limits a client asks for; 0 is one missing or unreadable
    Offsets,    \* the offsets it begins at
    Batches     \* the lists of ids it asks for

ASSUME ModelsAssumption ==
    /\ Models \subseteq Nat /\ IsFiniteSet(Models)
    /\ Limits \subseteq Int /\ Offsets \subseteq Int /\ Batches \subseteq Seq(Nat)

VARIABLES
    next,       \* the page to ask for, <<>> once an answer has no next link
    asked,      \* the request it began with
    seen        \* the models in the answers so far

apiVars == <<next, asked, seen>>

ParsePagination(limit, offset) ==
    [limit |-> IF limit <= 0 THEN 10 ELSE limit, offset |-> IF offset < 0 THEN 0 ELSE offset]

SlicePage(total, p) == [start |-> Min({p.offset, total}), end |-> Min({p.offset + p.limit, total})]

\* The link to the next page.
Paginate(total, p) ==
    IF p.offset + p.limit < total THEN <<[p EXCEPT !.offset = p.offset + p.limit]>> ELSE <<>>

Unsorted(listing) == listing  \* a mutant
\* By device type, which no two models share (a model is its rank).
Sorted(listing) ==
    CHOOSE s \in SetToSeqs(ToSet(listing)) : \A m, n \in DOMAIN s : m < n => s[m] < s[n]

\* The models whose name or type the search matches, in the order listed.
Filtered(listing, found) ==
    FoldLeft(LAMBDA kept, m : IF m \in found THEN Append(kept, m) ELSE kept, <<>>, listing)
getDeviceModels(listing, found, p) ==
    LET models == Sorted(Filtered(listing, found))
        slice == SlicePage(Len(models), p)
    IN  [results |-> SubSeq(models, slice.start + 1, slice.end),
         next |-> Paginate(Len(models), p)]

\* In the order first asked for, each once, the unknown ones left out.
GetDeviceModelsByIDs(ids) ==
    FoldLeft(LAMBDA out, id : IF id \in Models \ ToSet(out) THEN Append(out, id) ELSE out,
             <<>>, ids)

IndexFirst(ids, id) == Min({n \in DOMAIN ids : ids[n] = id})

NoRequest == [kind |-> "none"]
Idle == next = <<>> /\ asked = NoRequest /\ seen = <<>>

ListModels ==
    /\ asked = NoRequest
    /\ \E limit \in Limits, offset \in Offsets, found \in SUBSET Models :
          LET p == ParsePagination(limit, offset)
          IN  /\ asked' = [kind |-> "list", found |-> found, from |-> p]
              /\ next' = <<p>>
    /\ UNCHANGED seen

GetPage ==
    /\ next # <<>>
    /\ \E listing \in SetToSeqs(Models) :
          LET answer == getDeviceModels(listing, asked.found, next[1])
          IN  seen' = seen \o answer.results /\ next' = answer.next
    /\ UNCHANGED asked

PostBatch ==
    /\ asked = NoRequest
    /\ \E ids \in Batches :
          /\ asked' = [kind |-> "batch", ids |-> ids]
          /\ seen' = GetDeviceModelsByIDs(ids)
    /\ UNCHANGED next

Answered == asked # NoRequest /\ next = <<>>
NextRequest ==
    /\ Answered
    /\ next' = <<>> /\ asked' = NoRequest /\ seen' = <<>>

ApiNext == ListModels \/ GetPage \/ PostBatch \/ NextRequest

\* Whoever follows the links sees each matching model from the offset on exactly
\* once and in order, though every request lists a map anew; whoever asks by id
\* gets each model that exists once, in the order asked.
PagesCoverModels ==
    Answered =>
        IF asked.kind = "list"
        THEN LET all == Sorted(SetToSeq(asked.found))
             IN  seen = SubSeq(all, asked.from.offset + 1, Len(all))
        ELSE /\ ToSet(seen) = ToSet(asked.ids) \cap Models
             /\ IsInjective(seen)
             /\ \A m, n \in DOMAIN seen : m < n =>
                    IndexFirst(asked.ids, seen[m]) < IndexFirst(asked.ids, seen[n])
=============================================================================
