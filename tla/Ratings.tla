------------------------------ MODULE Ratings ------------------------------
(***************************************************************************)
(* Ratings and reviews (rating-service, src/ratings, src/reviews).  A      *)
(* rating and the aggregate of its target are written in one transaction,  *)
(* but the aggregate is read without a lock, and save() of an entity first *)
(* selects the row again and then inserts it, or updates the columns that  *)
(* differ from what it has just selected.                                  *)
(***************************************************************************)
EXTENDS Service

CONSTANTS
  References,  \* the rides and orders that may be rated
  Targets,     \* those who are rated: a targetId with its targetType
  Scores,      \* the scores in use, a subset of 1..5
  Reviews      \* the reviews that may be written

ASSUME RatingsAssumption == IsFiniteSet(References) /\ "total" \notin Scores

VARIABLES
  rating,     \* table ratings; the unique index is on referenceId alone
  aggregate,  \* table rating_aggregates: totalRatings and count1 .. count5
  review      \* collection reviews

ratingVars == <<job, rating, aggregate, review>>

RatingRow == [rater : Users, target : Targets, score : Scores,
              flagged : BOOLEAN, hidden : BOOLEAN]
Unrated == [rater |-> "none"]

Columns == {"total"} \cup Scores
Aggregate == [Columns -> Nat]
NoAggregate == [k \in Columns |-> 0]

ReviewDoc == {"absent", "posted", "replied"}

RatingJob ==
  [step : {"insert", "aggregate"}, ref : References, row : RatingRow]
    \cup [step : {"probe", "write", "commit"}, ref : References, row : RatingRow,
          new : Aggregate, columns : SUBSET Columns, inserts : BOOLEAN]

RatingsInit ==
  /\ AllIdle
  /\ rating = [r \in References |-> Unrated]
  /\ aggregate = [t \in Targets |-> NoAggregate]
  /\ review = [v \in Reviews |-> "absent"]

Rated(r) == rating[r] # Unrated
Exists(t) == aggregate[t].total # 0

\* The ratings of a target that are committed.
RatingsOf(t) == {r \in References : Rated(r) /\ rating[r].target = t}

-----------------------------------------------------------------------------
(* POST /ratings, statement by statement.                                  *)

\* The rater has not rated this reference yet; another rater may have.
CheckRated(s, r, u, t, score) ==
  /\ IsIdle(s)
  /\ ~(Rated(r) /\ rating[r].rater = u)
  /\ Goto(s, [step |-> "insert", ref |-> r,
              row |-> [rater |-> u, target |-> t, score |-> score,
                       flagged |-> FALSE, hidden |-> FALSE]])
  /\ UNCHANGED <<rating, aggregate, review>>

\* An INSERT of a reference waits for another uncommitted one.
Inserting(r) == {s \in Slots : job[s].step \in {"aggregate", "probe", "write", "commit"}
                                 /\ job[s].ref = r}

InsertRating(s) ==
  /\ At(s, "insert")
  /\ Inserting(job[s].ref) = {}
  /\ IF Rated(job[s].ref) THEN Return(s)
     ELSE Goto(s, [job[s] EXCEPT !.step = "aggregate"])
  /\ UNCHANGED <<rating, aggregate, review>>

\* Mutant: the count of a rating is added twice.
ReadAggregateTwice(s) ==
  /\ At(s, "aggregate")
  /\ LET j   == job[s]
         old == aggregate[j.row.target]
     IN Goto(s, [step |-> "probe", ref |-> j.ref, row |-> j.row,
                 new |-> [old EXCEPT !["total"] = @ + 2, ![j.row.score] = @ + 1],
                 columns |-> Columns, inserts |-> FALSE])
  /\ UNCHANGED <<rating, aggregate, review>>

\* The aggregate in memory with this score added; a fresh entity leaves the
\* other count columns undefined, and save() does not touch these.
ReadAggregate(s) ==
  /\ At(s, "aggregate")
  /\ LET j   == job[s]
         old == aggregate[j.row.target]
     IN Goto(s, [step |-> "probe", ref |-> j.ref, row |-> j.row,
                 new |-> [old EXCEPT !["total"] = @ + 1, ![j.row.score] = @ + 1],
                 columns |-> IF Exists(j.row.target) THEN Columns
                             ELSE {"total", j.row.score},
                 inserts |-> FALSE])
  /\ UNCHANGED <<rating, aggregate, review>>

\* save(): the row is selected again, and what differs from it is written.
Probe(s) ==
  /\ At(s, "probe")
  /\ LET j == job[s]
     IN Goto(s, [j EXCEPT !.step = "write",
                   !.columns = {k \in j.columns : aggregate[j.row.target][k] # j.new[k]},
                   !.inserts = ~Exists(j.row.target)])
  /\ UNCHANGED <<rating, aggregate, review>>

\* An UPDATE waits for the row's lock, and an INSERT for another INSERT of the
\* key; an INSERT of a key that is committed by then fails, and with it the
\* whole transaction, the rating included.
WriteAggregate(s) ==
  /\ At(s, "write")
  /\ \A x \in Slots \ {s} : ~(At(x, "commit") /\ job[x].row.target = job[s].row.target)
  /\ IF job[s].inserts /\ Exists(job[s].row.target) THEN Return(s)
     ELSE Goto(s, [job[s] EXCEPT !.step = "commit"])
  /\ UNCHANGED <<rating, aggregate, review>>

CommitRating(s) ==
  /\ At(s, "commit")
  /\ LET j == job[s]
     IN /\ rating' = [rating EXCEPT ![j.ref] = j.row]
        /\ aggregate' = [aggregate EXCEPT ![j.row.target] =
                           [k \in Columns |-> IF k \in j.columns THEN j.new[k] ELSE @[k]]]
  /\ Return(s)
  /\ UNCHANGED review

\* A statement fails or the process stops: the transaction is rolled back.
AbandonRating(s) ==
  /\ ~IsIdle(s)
  /\ Return(s)
  /\ UNCHANGED <<rating, aggregate, review>>

-----------------------------------------------------------------------------
(* PUT /ratings/:id/flag and /hide; the aggregate is left as it is.        *)

Flag(r) ==
  /\ Rated(r)
  /\ rating' = [rating EXCEPT ![r].flagged = TRUE]
  /\ UNCHANGED <<job, aggregate, review>>

Hide(r) ==
  /\ Rated(r)
  /\ rating' = [rating EXCEPT ![r].hidden = TRUE]
  /\ UNCHANGED <<job, aggregate, review>>

-----------------------------------------------------------------------------
(* POST /reviews and PATCH /reviews/:id/reply, each one write.             *)

PostReview(v) ==
  /\ review[v] = "absent"
  /\ review' = [review EXCEPT ![v] = "posted"]
  /\ UNCHANGED <<job, rating, aggregate>>

Reply(v) ==
  /\ review[v] # "absent"
  /\ review' = [review EXCEPT ![v] = "replied"]
  /\ UNCHANGED <<job, rating, aggregate>>

-----------------------------------------------------------------------------
\* What each controller serves.
RatingRequests ==
  \/ \E s \in Slots :
       \/ \E r \in References, u \in Users, t \in Targets, score \in Scores :
            CheckRated(s, r, u, t, score)
       \/ InsertRating(s) \/ ReadAggregate(s) \/ Probe(s) \/ WriteAggregate(s)
       \/ CommitRating(s)
  \/ \E r \in References : Flag(r) \/ Hide(r)

ReviewRequests == \E v \in Reviews : PostReview(v) \/ Reply(v)

RatingsNext ==
  RatingRequests \/ ReviewRequests \/ \E s \in Slots : AbandonRating(s)

RatingsSpec == RatingsInit /\ [][RatingsNext]_ratingVars

-----------------------------------------------------------------------------
(* Properties.                                                             *)

\* The tables and the locals of the handlers have their types.
RatingsTypeOK ==
  /\ rating \in [References -> RatingRow \cup {Unrated}]
  /\ aggregate \in [Targets -> Aggregate]
  /\ review \in [Reviews -> ReviewDoc]
  /\ job \in [Slots -> RatingJob \cup {Idle}]

\* A lost update makes an aggregate too small, never too large: a target that
\* has ratings has an aggregate, of at least one and at most all of them.
AggregateWithinRatings ==
  \A t \in Targets :
    LET n == Cardinality(RatingsOf(t))
    IN /\ aggregate[t].total <= n
       /\ n > 0 => aggregate[t].total > 0
=============================================================================
