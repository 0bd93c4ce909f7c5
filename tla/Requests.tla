------------------------------- MODULE Requests -------------------------------
(***************************************************************************)
(* The feature requests of ONE organisation (requests/gather.py,           *)
(* requests/views.py): passes that file what customers ask for under the   *)
(* nearest request, or under new ones the model names, and people who      *)
(* merge requests, move asks and dismiss them, all without a lock.         *)
(*                                                                         *)
(* An embedding is the unit vector of the topic it is about, and different *)
(* topics have nothing in common.  A centroid is the normalised mean of    *)
(* the vectors of a set of asks, and is kept as that set: with n of its    *)
(* asks about a topic, its cosine with it is n over the root of the sum of *)
(* the squares of all such n.                                              *)
(***************************************************************************)
EXTENDS Integers, FiniteSets

CONSTANTS
    Asks,           \* classified emails, tickets and calls
    Topics,
    Curators,       \* the passes and requests there may be at once
    Unfiled,        \* no RequestEvidence row
    Dismissed,      \* a row under no request
    MaxFeatures     \* bound: requests ever made

ASSUME RequestConstants ==
    /\ IsFiniteSet(Asks)
    /\ MaxFeatures \in Nat /\ Unfiled \notin Nat /\ Dismissed \notin Nat /\ Unfiled # Dismissed

VARIABLES
    topic,          \* what each ask is about
    asked,          \* the asks there are by now
    under,          \* per ask, the request its row is under
    centroids,      \* the FeatureRequest rows: id to centroid, of no asks when it is empty
    made,           \* how many there have been
    act,            \* per worker: where it is
    rejected,       \* asks a person dismissed and nobody moved back (history)
    mixed           \* two workers were at it at once, or one died on the way (history)

requestVars == <<topic, asked, under, centroids, made, act, rejected, mixed>>

Features == 1..MaxFeatures
NoAct == [pc |-> "idle", asks |-> {}, known |-> << >>, touched |-> {}, from |-> 0, into |-> 0]

RequestInit == /\ topic \in [Asks -> Topics]
               /\ asked = {}
               /\ under = [a \in Asks |-> Unfiled]
               /\ centroids = << >>
               /\ made = 0
               /\ act = [w \in Curators |-> NoAct]
               /\ rejected = {}
               /\ mixed = FALSE

Takes(w, new) ==
    /\ act[w].pc = "idle"
    /\ act' = [act EXCEPT ![w] = new]
    /\ mixed' = (mixed \/ \E v \in Curators \ {w} : act[v].pc # "idle")
Goes(w, new) == act' = [act EXCEPT ![w] = new] /\ UNCHANGED mixed
Stops(w) == Goes(w, NoAct)

Exists(f) == f \in DOMAIN centroids
Centre(row, f) == {a \in Asks : row[a] = f}
Recentred(row, f) == [centroids EXCEPT ![f] = Centre(row, f)]

\* One request is recentred; one that has gone ends the work.
Recentre(w, f) ==
    IF Exists(f)
    THEN /\ centroids' = Recentred(under, f)
         /\ Goes(w, [act[w] EXCEPT !.touched = @ \ {f}])
    ELSE UNCHANGED centroids /\ Stops(w)

\* The cosine of a topic and a centroid: the asks about it, over the root of the
\* pairs about one topic.  Both sides of a comparison are squared.
About(c, t) == {a \in c : topic[a] = t}
Pairs(c) == {p \in c \X c : topic[p[1]] = topic[p[2]]}
Hits(c, t) == Cardinality(About(c, t)) * Cardinality(About(c, t))
Matches(c, t) == About(c, t) # {} /\ 25 * Hits(c, t) >= 9 * Cardinality(Pairs(c))  \* MATCH = 0.6
Nearer(c, d, t) == Hits(c, t) * Cardinality(Pairs(d)) > Hits(d, t) * Cardinality(Pairs(c))

-----------------------------------------------------------------------------
(* gather                                                                   *)

\* What is unfiled, and the requests there are, read once for the whole pass.
StartGather(w) ==
    LET unfiled == {a \in asked : under[a] = Unfiled}
        with == {f \in DOMAIN centroids : centroids[f] # {}}
    IN  /\ unfiled # {}
        /\ Takes(w, [NoAct EXCEPT !.pc = "link", !.asks = unfiled,
                                  !.known = [f \in with |-> centroids[f]]])
        /\ UNCHANGED <<topic, asked, under, centroids, made, rejected>>

Near(w, a) == {f \in DOMAIN act[w].known : Matches(act[w].known[f], topic[a])}

Nearest(w, a) ==
    {f \in Near(w, a) :
        ~\E g \in Near(w, a) : Nearer(act[w].known[g], act[w].known[f], topic[a])}

\* One ask that is near a request goes to the nearest, or to any of those that are.
\* It is not filed when it is by now, or when the request has gone.
Link(w, a) ==
    /\ act[w].pc = "link" /\ a \in act[w].asks
    /\ \E f \in Nearest(w, a) :
          LET files == under[a] = Unfiled /\ Exists(f)
          IN  /\ under' = IF files THEN [under EXCEPT ![a] = f] ELSE under
              /\ Goes(w, [act[w] EXCEPT !.asks = @ \ {a},
                                        !.touched = IF files THEN @ \cup {f} ELSE @])
    /\ UNCHANGED <<topic, asked, centroids, made, rejected>>

\* The requests that got an ask, one by one.
RecentreTouched(w, f) ==
    /\ act[w].pc = "link" /\ f \in act[w].touched
    /\ \A a \in act[w].asks : Near(w, a) = {}
    /\ Recentre(w, f)
    /\ UNCHANGED <<topic, asked, under, made, rejected>>

\* Mutant: the group is filed over what was filed or dismissed meanwhile.
GroupedOver(group, f) == [a \in Asks |-> IF a \in group THEN f ELSE under[a]]

Grouped(group, f) == [a \in Asks |-> IF a \in group /\ under[a] = Unfiled THEN f ELSE under[a]]

\* The rest by topic: the model has named the group (while it did, anything may
\* have happened), and the request and its asks are one transaction. Asks filed
\* since are left where they are, and the request is made all the same.
CreateGroup(w, t) ==
    LET group == About(act[w].asks, t)
        f == made + 1
    IN  /\ act[w].pc = "link" /\ act[w].touched = {} /\ group # {}
        /\ \A a \in act[w].asks : Near(w, a) = {}
        /\ f \in Features
        /\ made' = f
        /\ under' = Grouped(group, f)
        /\ centroids' = [g \in DOMAIN centroids \cup {f} |-> IF g = f THEN group ELSE centroids[g]]
        /\ Goes(w, IF group = act[w].asks THEN NoAct ELSE [act[w] EXCEPT !.asks = @ \ group])
        /\ UNCHANGED <<topic, asked, rejected>>

\* Every ask is linked and every centroid is written.
EndGather(w) == /\ act[w].pc = "link" /\ act[w].asks = {} /\ act[w].touched = {}
                /\ Stops(w)
                /\ UNCHANGED <<topic, asked, under, centroids, made, rejected>>

\* The budget is spent, or the model does not answer: when a group is named.
GatherStops(w) == /\ act[w].pc = "link" /\ act[w].touched = {}
                  /\ \A a \in act[w].asks : Near(w, a) = {}
                  /\ Stops(w)
                  /\ UNCHANGED <<topic, asked, under, centroids, made, rejected>>

-----------------------------------------------------------------------------
(* The people who curate: two objects are loaded, and used as they were.    *)

\* The rows a merge has updated are its own until it commits.
Held(a) == \E v \in Curators : act[v].pc = "merge" /\ a \in act[v].asks

StartMerge(w, s, t) ==
    /\ Exists(s) /\ Exists(t) /\ s # t
    /\ Takes(w, [NoAct EXCEPT !.pc = "update", !.from = s, !.into = t])
    /\ UNCHANGED <<topic, asked, under, centroids, made, rejected>>

\* The asks the merge finds under its source.
UpdateEvidence(w) ==
    /\ act[w].pc = "update"
    /\ LET asks == {a \in Asks : under[a] = act[w].from}
       IN  /\ ~\E a \in asks : Held(a)
           /\ Goes(w, [act[w] EXCEPT !.pc = "merge", !.asks = asks])
    /\ UNCHANGED <<topic, asked, under, centroids, made, rejected>>

\* Mutant: the source's asks go with it.
AfterMergeCascading(w) == [a \in Asks |-> IF under[a] = act[w].from THEN Unfiled ELSE under[a]]

\* What was filed under the source since goes with it.
AfterMerge(w) == [a \in Asks |-> IF a \in act[w].asks THEN act[w].into
                                 ELSE IF under[a] = act[w].from THEN Unfiled ELSE under[a]]

\* Mutant: the survivor is not recentred.
MergedCentreKept(w) == centroids[act[w].into]

MergedCentre(w) == Centre(AfterMerge(w), act[w].into)

\* The commit: the source goes and the survivor is recentred; if that one has
\* gone, nothing happens.
Merge(w) ==
    /\ act[w].pc = "merge"
    /\ Stops(w)
    /\ IF Exists(act[w].into)
       THEN /\ under' = AfterMerge(w)
            /\ centroids' = [f \in DOMAIN centroids \ {act[w].from} |->
                                IF f = act[w].into THEN MergedCentre(w) ELSE centroids[f]]
       ELSE UNCHANGED <<under, centroids>>
    /\ UNCHANGED <<topic, asked, made, rejected>>

\* into 0: the ask is dismissed.
StartMove(w, a, t) ==
    /\ under[a] # Unfiled
    /\ t = 0 \/ Exists(t)
    /\ Takes(w, [NoAct EXCEPT !.pc = "move", !.asks = {a}, !.into = t,
                              !.from = IF under[a] = Dismissed THEN 0 ELSE under[a]])
    /\ UNCHANGED <<topic, asked, under, centroids, made, rejected>>

Place(t) == IF t = 0 THEN Dismissed ELSE t

\* The row is saved; it is not when it, or the request it goes to, has gone.
Move(w) ==
    LET a == CHOOSE a \in act[w].asks : TRUE
        t == act[w].into
    IN  /\ act[w].pc = "move" /\ ~Held(a)
        /\ IF under[a] = Unfiled \/ (t # 0 /\ ~Exists(t))
           THEN UNCHANGED <<under, rejected>> /\ Stops(w)
           ELSE /\ under' = [under EXCEPT ![a] = Place(t)]
                /\ rejected' = IF t = 0 THEN rejected \cup {a} ELSE rejected \ {a}
                /\ Goes(w, [act[w] EXCEPT !.pc = "recentre",
                                          !.touched = {t, act[w].from} \ {0}])
        /\ UNCHANGED <<topic, asked, centroids, made>>

\* The request it went to is recentred, and then the one it came from.
RecentreMoved(w, f) ==
    /\ act[w].pc = "recentre" /\ f \in act[w].touched
    /\ act[w].into \in act[w].touched => f = act[w].into
    /\ Recentre(w, f)
    /\ UNCHANGED <<topic, asked, under, made, rejected>>

EndMove(w) == /\ act[w].pc = "recentre" /\ act[w].touched = {}
              /\ Stops(w)
              /\ UNCHANGED <<topic, asked, under, centroids, made, rejected>>

\* A new title or status: the row is saved whole, its centroid as it was loaded,
\* and again if it has gone.
LoadFeature(w, f) ==
    /\ Exists(f)
    /\ Takes(w, [NoAct EXCEPT !.pc = "edit", !.from = f, !.known = [g \in {f} |-> centroids[f]]])
    /\ UNCHANGED <<topic, asked, under, centroids, made, rejected>>

SaveFeature(w) ==
    /\ act[w].pc = "edit"
    /\ centroids' = [f \in DOMAIN centroids \cup {act[w].from} |->
                        IF f = act[w].from THEN act[w].known[f] ELSE centroids[f]]
    /\ Stops(w)
    /\ UNCHANGED <<topic, asked, under, made, rejected>>

GatherDies(w) == /\ act[w].pc # "idle"
                 /\ act' = [act EXCEPT ![w] = NoAct]
                 /\ mixed' = TRUE
                 /\ UNCHANGED <<topic, asked, under, centroids, made, rejected>>

\* A record is classified as a feature request.
Arises(a) == /\ a \notin asked
             /\ asked' = asked \cup {a}
             /\ UNCHANGED <<topic, under, centroids, made, act, rejected, mixed>>

GatherStep(w) == \/ \E a \in Asks : Link(w, a)
                 \/ \E f \in Features : RecentreTouched(w, f)
                 \/ \E t \in Topics : CreateGroup(w, t)
                 \/ EndGather(w) \/ GatherStops(w)

CuratorStep(w) == \/ \E s, t \in Features : StartMerge(w, s, t)
                  \/ \E a \in Asks, t \in Features \cup {0} : StartMove(w, a, t)
                  \/ \E f \in Features : LoadFeature(w, f) \/ RecentreMoved(w, f)
                  \/ UpdateEvidence(w) \/ Merge(w) \/ Move(w) \/ EndMove(w) \/ SaveFeature(w)

RequestNext == \/ \E w \in Curators :
                     StartGather(w) \/ GatherStep(w) \/ CuratorStep(w) \/ GatherDies(w)
               \/ \E a \in Asks : Arises(a)

RequestSpec == RequestInit /\ [][RequestNext]_requestVars

-----------------------------------------------------------------------------
(* Properties                                                               *)

RequestTypeOK ==
    /\ topic \in [Asks -> Topics] /\ asked \subseteq Asks /\ rejected \subseteq asked
    /\ DOMAIN centroids \subseteq 1..made /\ made \in 0..MaxFeatures
    /\ \A f \in DOMAIN centroids : centroids[f] \subseteq Asks
    /\ under \in [Asks -> {Unfiled, Dismissed} \cup DOMAIN centroids]
    /\ mixed \in BOOLEAN

\* "recomputed whenever its evidence changes" (recentre): with nobody else at it
\* and nothing cut short, a centroid is that of the request's asks, whatever was
\* merged, moved, dismissed, edited and linked before.
CentroidsFollow ==
    ~mixed /\ (\A w \in Curators : act[w].pc = "idle") =>
        \A f \in DOMAIN centroids : centroids[f] = Centre(under, f)

\* "it stays filed as dismissed so gather leaves it alone" (views.py:188): what a
\* person took out no pass files again, not even one that read it before.
RejectedStaysOut == \A a \in rejected : under[a] = Dismissed

\* A request is made of the asks people left with it, and of no others.
EvidenceIsRight == CentroidsFollow /\ RejectedStaysOut

\* A request mostly about the topic: half of its asks, or more, are.
MostlyAbout(f, t) ==
    LET asks == Centre(under, f)
    IN  About(asks, t) # {} /\ 2 * Cardinality(About(asks, t)) >= Cardinality(asks)

\* A merge is not undone, by itself or by the pass after it: no ask loses its
\* place, as long as nothing is filed under the source while it goes, and no
\* second request is raised on what half of the asks of one are about ("a merge
\* would silently undo itself" without its recentre, gather.py:211-213).  On what
\* fewer are about it is raised: one ask merged into two has a cosine of 0.45.
MergesStay ==
    [][~mixed' =>
          /\ \A a \in Asks : under[a] # Unfiled => under'[a] # Unfiled
          /\ made' > made =>
                \A f \in DOMAIN centroids, a \in centroids'[made'] :
                    ~MostlyAbout(f, topic[a])]_requestVars
=============================================================================
