----------------------------- MODULE VerifyView -----------------------------
(***************************************************************************)
(* The Verify page of the dashboard: it asks for the proof of a log, shows *)
(* the tree of its batch and the path of the proof in it, and has a log    *)
(* that waits sealed at once.  Each request is answered by the API in one  *)
(* state and its answer arrives in another.  A request for a tree is       *)
(* cancelled by the next one; a request for a proof is not.                *)
(***************************************************************************)
EXTENDS Evidence

CONSTANTS Asked,  \* bound: ids that are asked for
          MaxAsks \* bound: proofs asked for

VARIABLES
    box,      \* logId: what is typed
    url,      \* ?proofLog=
    loading, result, failure, waiting, \* what the form shows; waiting: pending
    sealing,  \* the log for whose sake the page waits for POST seal-now
    selected, \* selectedBatch
    tree,     \* treeData
    calls,    \* requests of runVerify
    treeCall, \* the request for a tree that is not cancelled
    asks      \* calls of runVerify so far

form == <<loading, result, failure, waiting>>
treeVars == <<selected, tree, treeCall>>
view == <<box, url, form, sealing, treeVars, calls, asks>>

\* An id that is not a UUID; one of no log is answered like that of a log that is not sealed.
BadId == -1
Nobody == -2
Ids == Logs \cup {BadId}

ASSUME ViewConstants == Asked \subseteq Ids /\ MaxAsks \in Nat

None == [batch |-> NoBatch]
NotYet == <<>>
Failed == <<"failed">>
NotFound == <<"404">>
NoCall == [batch |-> NoBatch, answer |-> NotYet]

ViewInit ==
    /\ box = Nobody /\ url = Nobody
    /\ loading = FALSE /\ result = None /\ failure = "" /\ waiting = Nobody /\ sealing = Nobody
    /\ selected = NoBatch /\ tree = None /\ treeCall = NoCall
    /\ calls = {} /\ asks = 0

-----------------------------------------------------------------------------
(* runVerify *)

\* What stood there is gone at once; an id that is not a UUID is not sent.
RunVerify(id) ==
    /\ result' = None /\ waiting' = Nobody
    /\ \/ /\ id = BadId
          /\ failure' = "bad id" /\ UNCHANGED <<loading, calls, asks>>
       \/ /\ id # BadId /\ asks < MaxAsks
          /\ asks' = asks + 1 /\ loading' = TRUE /\ failure' = ""
          /\ calls' = calls \cup {[nr |-> asks', id |-> id, get |-> "proof", answer |-> NotYet]}

\* The button, Enter, the list of recent logs and the leaves of the tree: by way of the URL.
VerifyFromList(id) ==
    /\ "view" \in may /\ box' = id
    /\ url' = IF id = BadId THEN url ELSE id
    /\ RunVerify(id)
    /\ UNCHANGED <<evidence, sealing, treeVars>>

\* The API answers; what it says is true of the state it answers in.
AnswerTo(c) ==
    CASE c.id \notin Logs \/ (c.id \in Logs /\ rows[c.id] = NoRow) -> NotFound
      [] c.get = "proof" /\ c.id \in Logs /\ rows[c.id] # NoRow ->
            IF HasProof(c.id) THEN <<"proof", ProofOf(c.id)>> ELSE NotFound
      [] OTHER -> <<"detail", HasProof(c.id)>>

Serve(c) ==
    /\ c.answer = NotYet
    /\ \E a \in {AnswerTo(c)} \cup (IF "fail" \in may THEN {Failed} ELSE {}) :
          calls' = (calls \ {c}) \cup {[c EXCEPT !.answer = a]}
    /\ UNCHANGED <<evidence, box, url, form, sealing, treeVars, asks>>

\* setSelectedBatch: another batch cancels the request for a tree and makes a new one.
Select(b) ==
    /\ selected' = b
    /\ \/ b = selected /\ UNCHANGED <<tree, treeCall>>
       \/ b # selected /\ b = NoBatch /\ tree' = None /\ treeCall' = NoCall
       \/ b # selected /\ b # NoBatch /\ treeCall' = [batch |-> b, answer |-> NotYet] /\ UNCHANGED tree

ProofArrives(c) ==
    /\ c.get = "proof" /\ c.answer \notin {NotYet, NotFound, Failed}
    /\ result' = c.answer[2] /\ loading' = FALSE
    /\ Select(c.answer[2].batch)
    /\ calls' = calls \ {c}
    /\ UNCHANGED <<evidence, box, url, failure, waiting, sealing, asks>>

\* 404 may mean that the log is not sealed yet: classifyUnsealed asks for its detail.
NoProofArrives(c) ==
    /\ c.get = "proof" /\ c.answer = NotFound
    /\ calls' = (calls \ {c}) \cup {[c EXCEPT !.get = "detail", !.answer = NotYet]}
    /\ UNCHANGED <<evidence, box, url, form, sealing, treeVars, asks>>

DetailArrives(c) ==
    /\ c.get = "detail" /\ c.answer \notin {NotYet, Failed}
    /\ \/ c.answer = <<"detail", FALSE>> /\ waiting' = c.id /\ failure' = ""
       \/ c.answer = <<"detail", TRUE>> /\ failure' = "not sealed" /\ UNCHANGED waiting
       \/ c.answer = NotFound /\ failure' = "not found" /\ UNCHANGED waiting
    /\ loading' = FALSE /\ calls' = calls \ {c}
    /\ UNCHANGED <<evidence, box, url, result, sealing, treeVars, asks>>

CallFails(c) ==
    /\ c.answer = Failed
    /\ failure' = "failed" /\ loading' = FALSE /\ calls' = calls \ {c}
    /\ UNCHANGED <<evidence, box, url, result, waiting, sealing, treeVars, asks>>

-----------------------------------------------------------------------------
(* Seal now, the tree *)

DoSeal ==
    /\ waiting # Nobody /\ sealing = Nobody /\ sealing' = waiting
    /\ UNCHANGED <<evidence, box, url, form, treeVars, calls, asks>>

\* The proof is asked for again, of the log the page waited for.
SealNowReturns ==
    /\ sealing # Nobody /\ sealing' = Nobody
    /\ RunVerify(sealing)
    /\ UNCHANGED <<evidence, box, url, treeVars>>

SealNowFails ==
    /\ sealing # Nobody /\ sealing' = Nobody
    /\ UNCHANGED <<evidence, box, url, form, treeVars, calls, asks>>

\* Picking another batch takes the proof away.
SelectBatch(b) ==
    /\ "view" \in may /\ b # selected
    /\ \/ /\ result.batch \notin {NoBatch, b}
          /\ result' = None /\ failure' = "" /\ url' = Nobody
       \/ /\ result.batch \in {NoBatch, b}
          /\ UNCHANGED <<result, failure, url>>
    /\ Select(b)
    /\ UNCHANGED <<evidence, box, loading, waiting, sealing, calls, asks>>

ServeTree ==
    /\ treeCall # NoCall /\ treeCall.answer = NotYet
    /\ \E a \in {<<"tree", TreeOf(treeCall.batch)>>} \cup (IF "fail" \in may THEN {Failed} ELSE {}) :
          treeCall' = [treeCall EXCEPT !.answer = a]
    /\ UNCHANGED <<evidence, box, url, form, sealing, selected, tree, calls, asks>>

TreeArrives ==
    /\ treeCall.answer # NotYet
    /\ tree' = IF treeCall.answer = Failed THEN None ELSE treeCall.answer[2]
    /\ treeCall' = NoCall
    /\ UNCHANGED <<evidence, box, url, form, sealing, selected, calls, asks>>

ViewNext ==
    \/ \E id \in Asked : VerifyFromList(id)
    \/ \E c \in calls : \/ Serve(c) \/ ProofArrives(c) \/ NoProofArrives(c)
                        \/ DetailArrives(c) \/ CallFails(c)
    \/ DoSeal \/ SealNowReturns \/ SealNowFails
    \/ \E b \in Batches \cup {NoBatch} : SelectBatch(b)
    \/ ServeTree \/ TreeArrives

-----------------------------------------------------------------------------
(* What is highlighted *)

ProofForTree == result # None /\ tree # None /\ result.batch = tree.batch

\* The siblings that lead from the leaf to the root; an index outside the tree has no path.
HasPath == tree.layers # <<>> /\ result.leaf \in DOMAIN tree.layers[1]
ProofPath == SiblingsOf(tree.layers, result.leaf)

CheckProof_NoLength(path, proof) ==
    \A k \in DOMAIN path : k \in DOMAIN proof /\ path[k] = proof[k]

CheckProof(path, proof) == Len(path) = Len(proof) /\ \A k \in DOMAIN path : path[k] = proof[k]

PathOk == ProofForTree /\ HasPath /\ CheckProof(ProofPath, result.proof)

-----------------------------------------------------------------------------
(* Properties *)

ViewTypeOK ==
    /\ {box, url, waiting, sealing} \subseteq Ids \cup {Nobody}
    /\ selected \in Batches \cup {NoBatch} /\ asks \in 0 .. MaxAsks
    /\ result # None => HasProof(result.log) \/ edits > 0
    /\ \A c \in calls : c.nr \in 1 .. asks /\ c.id \in Ids \ {BadId}

\* "never highlight a path the backend proof does not back up": where a path is highlighted, the
\* proof the API gave leads from the leaf that is highlighted to the root of the tree on the page,
\* although proof and tree were answered at different times and rows, mapping and selection may
\* have changed in between (Verify.tsx:325).
PathIsBacked ==
    PathOk => Climb(tree.layers[1][result.leaf], result.proof) = tree.root

=============================================================================
