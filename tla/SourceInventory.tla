--------------------------- MODULE SourceInventory --------------------------
(***************************************************************************)
(* conformance/check-source-inventory.py, on one cloned repository: does   *)
(* the inventory list exactly what the producers changed?  A repository is *)
(* [whole, refs, commits, trees]: commits[c] has its parents, its tree and *)
(* the status and path of each change, trees[t] its entries.               *)
(***************************************************************************)
EXTENDS JsonValues, FiniteSets

CONSTANTS Producers,   \* Producers[c]: the issue of producer commit c
          Size(_)      \* the length of a blob, named by its digest

EntryFields == {"blob_oid", "byte_length", "git_file_mode", "issue", "parent_sha", "path", "sha256",
                "source_commit", "tree_sha"}

\* _load_inventory, after decoding.
WellFormedInventory(v) ==
    /\ IsObj(v) /\ Keys(v) = {"entries", "format", "item_count", "lookup_failures"}
    /\ PyEq(Get(v, "format"), Str("sacrysty-source-inventory/v1"))
    /\ Get(v, "lookup_failures") = <<"arr", <<>>>>
    /\ IsArr(Get(v, "entries"))
    /\ IsInt(Get(v, "item_count")) /\ Get(v, "item_count")[2] = Len(Get(v, "entries")[2])

\* A relative path that stays below the root.
SafePath(p) == p[2] # <<>> /\ p[2][1] # "/" /\ \A i \in DOMAIN p[2] : p[2][i] # ".."
CommitOf(e) == Get(e, "source_commit")[2][1]
EntryFits(e) ==
    /\ IsObj(e) /\ Keys(e) = EntryFields
    /\ IsStr(Get(e, "source_commit")) /\ IsStr(Get(e, "path"))
    /\ \E c \in DOMAIN Producers : Get(e, "source_commit") = Str(c) /\ PyEq(Get(e, "issue"), <<"int", Producers[c]>>)
    /\ SafePath(Get(e, "path"))

\* _changed_paths: a deleted path has no blob, and every other one is named once.
OnlyAdded(changes) == \A i \in DOMAIN changes :
    /\ changes[i].status \in {"A", "M", "T"}
    /\ \A j \in DOMAIN changes : changes[j].path = changes[i].path => i = j
ChangedPaths(changes) == {changes[i].path : i \in DOMAIN changes}

\* _tree_entry: the one blob of that path.
Blobs(repo, commit, path) == {b \in repo.trees[repo.commits[commit].tree] : b.path = path}

MatchesBlob(e, repo, commit) ==
    LET found == Blobs(repo, commit, Get(e, "path")[2]) IN
    /\ Get(e, "parent_sha") = Str(repo.commits[commit].parents[1])
    /\ Get(e, "tree_sha") = Str(repo.commits[commit].tree)
    /\ Cardinality(found) = 1
    /\ \E b \in found :
          /\ b.kind = "blob"
          /\ Get(e, "git_file_mode") = Str(b.mode) /\ Get(e, "blob_oid") = Str(b.oid)
          /\ IsInt(Get(e, "byte_length")) /\ Get(e, "byte_length")[2] = Size(b.sha)
          /\ Get(e, "sha256") = Str(b.sha)

DistinctIdentities(entries) == \A i, j \in DOMAIN entries :
    Get(entries[i], "source_commit") = Get(entries[j], "source_commit") /\ Get(entries[i], "path") = Get(entries[j], "path") => i = j

\* One producer: its paths are those of its entries, one entry each.
ProducerExact(repo, commit, entries) ==
    LET c == repo.commits[commit]
        mine == {i \in DOMAIN entries : CommitOf(entries[i]) = commit}
    IN  /\ Len(c.parents) = 1 /\ OnlyAdded(c.changes)
        /\ {Get(entries[i], "path")[2] : i \in mine} = ChangedPaths(c.changes)
        /\ Cardinality(mine) = Cardinality(ChangedPaths(c.changes))
        /\ \A i \in mine : MatchesBlob(entries[i], repo, commit)

\* _check_inventory, after _require_complete_history.
CheckInventory(repo, inventory) ==
    LET entries == Get(inventory, "entries")[2] IN
    /\ repo.whole
    /\ \A i \in DOMAIN entries : EntryFits(entries[i])
    /\ DistinctIdentities(entries)
    /\ \A c \in DOMAIN Producers : c \in DOMAIN repo.commits /\ ProducerExact(repo, c, entries)
    /\ Cardinality(UNION {{c} \X ChangedPaths(repo.commits[c].changes) : c \in DOMAIN Producers}) = Get(inventory, "item_count")[2]
=============================================================================
