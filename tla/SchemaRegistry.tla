--------------------------- MODULE SchemaRegistry ---------------------------
(***************************************************************************)
(* The resource manager's content-addressed schema store.  A schema is a   *)
(* record of the proto file it describes and its hash; the store keeps one *)
(* schema per hash and, per file, the hash that was first seen last.       *)
(***************************************************************************)
EXTENDS Naturals, Sequences, FiniteSetsExt

CONSTANT NoHash   \* the empty schema_hash

VARIABLE registry  \* [byHash: hash -> schema, byProtoFile: file -> hash]

RegistryInit ==
    registry = [byHash |-> <<>>, byProtoFile |-> <<>>]

\* The schemas at these positions are entered, in order: the last one of a file
\* is the one its name leads to.
Enter(schemas, positions) ==
    LET hashes == {schemas[i].hash : i \in positions}
        files == {schemas[i].file : i \in positions}
        At(hash) == CHOOSE i \in positions : schemas[i].hash = hash
        LastOf(file) == Max({i \in positions : schemas[i].file = file})
    IN  registry' =
            [byHash |-> [hash \in DOMAIN registry.byHash \cup hashes |->
                            IF hash \in hashes THEN schemas[At(hash)] ELSE registry.byHash[hash]],
             byProtoFile |-> [file \in DOMAIN registry.byProtoFile \cup files |->
                                IF file \in files THEN schemas[LastOf(file)].hash
                                                  ELSE registry.byProtoFile[file]]]

\* Mutant: a file that is already known is taken for a duplicate.
ingestFiles(schemas) ==
    Enter(schemas, {i \in DOMAIN schemas :
                        /\ schemas[i].hash # NoHash
                        /\ schemas[i].file \notin DOMAIN registry.byProtoFile
                        /\ \A j \in 1..(i - 1) : schemas[j].file # schemas[i].file})

\* A schema without a hash, or with a hash seen before, in an earlier advertisement
\* or in this one, changes nothing.
Fresh(schemas) ==
    {i \in DOMAIN schemas : /\ schemas[i].hash # NoHash
                            /\ schemas[i].hash \notin DOMAIN registry.byHash
                            /\ \A j \in 1..(i - 1) : schemas[j].hash # schemas[i].hash}

ingest(schemas) == Enter(schemas, Fresh(schemas))

findByHash(hash) ==
    IF hash \in DOMAIN registry.byHash THEN {registry.byHash[hash]} ELSE {}

findByProtoFile(file) ==
    IF file \in DOMAIN registry.byProtoFile
    THEN findByHash(registry.byProtoFile[file])
    ELSE {}

allSchemas == {registry.byHash[hash] : hash \in DOMAIN registry.byHash}

=============================================================================
