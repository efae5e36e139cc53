-------------------------- MODULE PortalRepositories --------------------------
(***************************************************************************)
(* The customer's cluster repository (repository_service.py): its address  *)
(* and the version of the writer's secret that the row pins.  Secrets are  *)
(* written to OpenBao by compare-and-set before the row is committed.  The *)
(* GitOps operations appear with what locks the address.                   *)
(***************************************************************************)
EXTENDS PortalRequests

\* A version of 0 or a pin of 0 is NULL.
Version == IF store.repo = None THEN 0 ELSE store.repo.version
Latest == Len(store.vault)

Rest == UNCHANGED <<db, git, bindings, faults, seen>>

\* Publications (which may have reached the remote even if they failed) and what waits,
\* runs or was previewed lock the address.
UrlLockedNow == \E o \in DOMAIN store.ops : store.ops[o].status \in {"queued", "running", "preview_ready"}
UrlLocked == \E o \in DOMAIN store.ops :
  \/ store.ops[o].kind = "publish"
  \/ store.ops[o].status \in {"queued", "running", "preview_ready"}

\* save_repository: a new address starts without credentials.
NewRepo(url, version) == [url |-> url, pin |-> 0, named |-> FALSE, version |-> version, valid |-> FALSE]

SaveRepository(h) == \E e \in Wanted(h, {"url"}) :
  /\ RepoFree /\ e.version = Version
  /\ store.repo # None => store.repo.url # e.url /\ ~UrlLocked
  /\ store' = [store EXCEPT !.repo = NewRepo(e.url, Version + 1)]
  /\ todo' = todo \ {e}
  /\ UNCHANGED <<hs, locks>> /\ Rest

\* replace_credentials: from the pin, or from a version that the administrator has
\* confirmed, which may not be older.
StartReplace(h) == \E e \in Wanted(h, {"replace"}) : \E cas \in 0..Latest :
  /\ LockRepo(h)
  /\ store.repo # None /\ e.version = Version
  /\ IF e.confirmed THEN cas >= store.repo.pin ELSE cas = store.repo.pin
  /\ Enter(h, e, IF ~e.confirmed /\ store.repo.pin = 0 THEN "latest" ELSE "write", cas, store.repo.url, {})
  /\ UNCHANGED store /\ Rest

\* Without a pin or a confirmation, OpenBao must hold no version.
ReadLatest(h) ==
  /\ At(h, {"replace"}, "latest") /\ Latest = 0
  /\ Move(h, "write")
  /\ UNCHANGED <<store, locks>> /\ Rest

\* OpenBao appends a version if the latest one is the one that was named.
CasMatches(h) == Latest = hs[h].id

WriteSecret(h) ==
  /\ At(h, {"replace"}, "write") /\ CasMatches(h)
  /\ store' = [store EXCEPT !.vault = Append(@, hs[h].saw)]
  /\ Move(h, "commit")
  /\ UNCHANGED locks /\ Rest

Pinned(repo, version) == [repo EXCEPT !.pin = version, !.named = TRUE, !.version = @ + 1, !.valid = FALSE]

CommitReplace(h) ==
  /\ At(h, {"replace"}, "commit")
  /\ Commit(h)
  /\ store' = [store EXCEPT !.repo = Pinned(@, hs[h].id + 1)]
  /\ Rest

\* _writer_secret: the pinned version, the latest one of a legacy row, if it was made
\* for this address (an old one names none).
WriterVersion == IF store.repo.pin # 0 THEN store.repo.pin ELSE Latest
Serves(version) == version \in 1..Latest /\ store.vault[version] \in {store.repo.url, None}

StartValidate(h) == \E e \in Wanted(h, {"validate"}) :
  /\ LockRepo(h)
  /\ store.repo # None /\ e.version = Version
  /\ store.repo.named /\ Serves(WriterVersion)
  /\ Enter(h, e, "check", WriterVersion, None, {})
  /\ UNCHANGED store /\ Rest

\* Forgejo confirms the repository or does not; a valid legacy row is pinned.
Validated(repo, version, valid) ==
  IF valid /\ repo.pin = 0 THEN [repo EXCEPT !.pin = version, !.version = @ + 1, !.valid = TRUE]
                           ELSE [repo EXCEPT !.valid = valid]

CommitValidate(h) == \E valid \in BOOLEAN :
  /\ At(h, {"validate"}, "check")
  /\ Commit(h)
  /\ store' = [store EXCEPT !.repo = Validated(@, hs[h].id, valid)]
  /\ Rest

------------------------------------------------------------------------------
\* The operations that GitOps.tla is about, as far as they lock the address.
Operation(kind, status) == [kind |-> kind, status |-> status, url |-> store.repo.url]
Underway == \E o \in DOMAIN store.ops : store.ops[o].status \in {"queued", "running"}

Preview == \E e \in todo :
  /\ e.op = "preview"
  /\ RepoFree /\ Live /\ ~Underway
  /\ store.repo # None /\ store.repo.pin # 0 /\ store.repo.valid
  /\ store' = [store EXCEPT !.ops = Append(
       [o \in DOMAIN @ |-> IF @[o].status = "preview_ready" THEN [@[o] EXCEPT !.status = "superseded"] ELSE @[o]],
       Operation("preview", "queued"))]
  /\ todo' = todo \ {e}
  /\ UNCHANGED <<hs, locks>> /\ Rest

Approve == \E e \in todo : \E o \in DOMAIN store.ops :
  /\ e.op = "approve"
  /\ RepoFree /\ Live /\ ~Underway
  /\ \/ store.ops[o].kind = "preview" /\ store.ops[o].status = "preview_ready" /\ store.repo.valid
     \/ store.ops[o].kind = "publish" /\ store.ops[o].status = "failed"
  /\ store' = [store EXCEPT !.ops[o].kind = "publish", !.ops[o].status = "queued"]
  /\ todo' = todo \ {e}
  /\ UNCHANGED <<hs, locks>> /\ Rest

Ended(op) == IF op.kind = "publish" THEN {"succeeded", "failed"} ELSE {"preview_ready", "failed"}
Work == \E o \in DOMAIN store.ops : \E status \in Ended(store.ops[o]) :
  /\ RepoFree /\ store.ops[o].status = "queued"
  /\ store' = [store EXCEPT !.ops[o].status = status]
  /\ UNCHANGED <<hs, locks, todo>> /\ Rest
==============================================================================
