----------------------- MODULE VideoUploadRefinement -----------------------
(* The upload path implements the Catalog.                                 *)
EXTENDS VideoUpload

(* An ID is pending from the INSERT to its commit; a row is what the       *)
(* readers can see of it, and the extension of the file it is of; a key is *)
(* stored once it has an object.                                           *)
PendingIds == {rowId[r] : r \in {q \in Requests : pc[q] = "commit"}}
ListedRows == {[ID |-> w.ID, UUID |-> w.UUID, Ext |-> w.Ext,
                full |-> ExtOf[FileOf(w.of)]] : w \in table}
StoredKeys == {k \in Keys : bucket[k] # None}

C == INSTANCE Catalog WITH pending <- PendingIds,
                           rows    <- ListedRows,
                           objects <- StoredKeys

(* Seen from the table and the bucket, the interleaved and failing scripts *)
(* do nothing but reserve IDs, store objects and publish rows whose two    *)
(* objects are stored.                                                     *)
ImplementsCatalog == C!CatalogSpec
=============================================================================
