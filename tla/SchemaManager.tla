------------------------------ MODULE SchemaManager ------------------------------
(***************************************************************************)
(* Schemas of a v1 database (src/schema): a schema is a node of type       *)
(* __schema__; SchemaManager reads all of them and then updates, inserts   *)
(* or deletes one, and nothing holds a lock in between.  A schema is a     *)
(* partial function from field names to definitions; a value is its type.  *)
(* MigrationGenerator compares two versions of one.                        *)
(***************************************************************************)
EXTENDS Integers, Sequences, SequencesExt, FiniteSets, FiniteSetsExt

CONSTANTS
    SchemaNames,    \* names schemas are created under
    SchemaDefs,     \* the definitions created, in the form of ParseFields
    RowIds,         \* ids of __schema__ nodes, numbers
    SchemaCalls,    \* calls in flight
    MaxData         \* data nodes per type at most

ASSUME SchemaConstants ==
    /\ RowIds \subseteq Nat
    /\ \A defs \in SchemaDefs : IsFiniteSet(DOMAIN defs)

VARIABLES
    srows,      \* the __schema__ nodes: id -> [name, fields]
    data,       \* number of data nodes of each type
    smcall,     \* the SchemaManager call each client has in flight
    twice,      \* history: names that had two creates in flight at once
    minted      \* row ids ever used: they are UUIDs

schemaVars == <<srows, data, smcall, twice, minted>>

-------------------------------------------------------------------------------
(* registry.rs *)

Field(type, nullable, unique, indexed) ==
    [type |-> type, nullable |-> nullable, unique |-> unique, indexed |-> indexed]

(* SchemaManager::parse_fields: "name:type:modifier..." with unknown types read
   as String and unknown modifiers skipped.                                *)
ParseFields(defs) ==
    [f \in DOMAIN defs |->
        Field(defs[f].type, "required" \notin defs[f].mods,
              "unique" \in defs[f].mods, "indexed" \in defs[f].mods)]

-------------------------------------------------------------------------------
(* migration.rs: the actions, and what the SQL of each does to a table. *)

FieldChanged(old, new) ==
    <<old.type, old.nullable, old.unique>> # <<new.type, new.nullable, new.unique>>

(* MigrationGenerator::generate: added, removed, then changed fields.  An added
   field gets no index action.                                             *)
Generate(old, new) ==
    {[act |-> "AddField", field |-> f, def |-> new[f]] : f \in DOMAIN new \ DOMAIN old}
    \cup {[act |-> "RemoveField", field |-> f] : f \in DOMAIN old \ DOMAIN new}
    \cup UNION {
        (IF FieldChanged(old[f], new[f])
         THEN {[act |-> "ModifyField", field |-> f, def |-> new[f]]} ELSE {})
        \cup (CASE new[f].indexed /\ ~old[f].indexed ->
                     {[act |-> "AddIndex", field |-> f, unique |-> new[f].unique]}
                [] ~new[f].indexed /\ old[f].indexed -> {[act |-> "RemoveIndex", field |-> f]}
                [] OTHER -> {})
        : f \in DOMAIN old \cap DOMAIN new}

(* MigrationAction::to_sql: ADD COLUMN carries type and NOT NULL, ALTER COLUMN
   the type alone.                                                         *)
ToSql(table, action) ==
    LET f == action.field
    IN  CASE action.act = "AddField" ->
               [g \in DOMAIN table \cup {f} |->
                   IF g = f THEN Field(action.def.type, action.def.nullable, FALSE, FALSE)
                   ELSE table[g]]
          [] action.act = "RemoveField" -> [g \in DOMAIN table \ {f} |-> table[g]]
          [] action.act = "ModifyField" -> [table EXCEPT ![f].type = action.def.type]
          [] action.act = "AddIndex" -> [table EXCEPT ![f].indexed = TRUE]
          [] action.act = "RemoveIndex" -> [table EXCEPT ![f].indexed = FALSE]

Migrate(old, new) == FoldSet(LAMBDA a, t : ToSql(t, a), old, Generate(old, new))

-------------------------------------------------------------------------------
(* mod.rs: calls.  Each reads every __schema__ node, then writes one. *)

NoSchemaCall == [pc |-> "idle"]

SchemaInit ==
    /\ srows = <<>>
    /\ data = [n \in SchemaNames |-> 0]
    /\ smcall = [c \in SchemaCalls |-> NoSchemaCall]
    /\ twice = {} /\ minted = {}

NamedRows(name) == {r \in DOMAIN srows : srows[r].name = name}

(* The scan of save_schema and remove_schema: the first row of the name. *)
FirstRow(name) == IF NamedRows(name) = {} THEN {} ELSE {Min(NamedRows(name))}

InFlight(name, kind) ==
    {c \in SchemaCalls : smcall[c].pc # "idle" /\ smcall[c].kind = kind /\ smcall[c].name = name}

(* create_schema: parse, build, and read the rows. *)
CreateSchema(c, name, defs) ==
    /\ smcall[c] = NoSchemaCall
    /\ smcall' = [smcall EXCEPT ![c] =
            [pc |-> "save", kind |-> "create", name |-> name,
             fields |-> ParseFields(defs), row |-> FirstRow(name)]]
    /\ twice' = twice \cup (IF InFlight(name, "create") = {} THEN {} ELSE {name})
    /\ UNCHANGED <<srows, data, minted>>

(* save_schema: update the row found, else insert one.  update_node of a row
   that is gone fails the call.                                            *)
SaveSchema(c) ==
    /\ smcall[c].pc = "save"
    /\ LET new == [name |-> smcall[c].name, fields |-> smcall[c].fields]
       IN  \/ /\ smcall[c].row # {}
              /\ LET r == CHOOSE x \in smcall[c].row : TRUE
                 IN  srows' = IF r \in DOMAIN srows THEN [srows EXCEPT ![r] = new] ELSE srows
              /\ UNCHANGED minted
           \/ /\ smcall[c].row = {}
              /\ \E r \in RowIds \ minted :
                    /\ srows' = [x \in DOMAIN srows \cup {r} |->
                                    IF x = r THEN new ELSE srows[x]]
                    /\ minted' = minted \cup {r}
    /\ smcall' = [smcall EXCEPT ![c] = NoSchemaCall]
    /\ UNCHANGED <<data, twice>>

(* drop_schema: without force, refused while the type has a node. *)
DropSchema(c, name, force) ==
    /\ smcall[c] = NoSchemaCall
    /\ force \/ data[name] = 0
    /\ smcall' = [smcall EXCEPT ![c] = [pc |-> "scan", kind |-> "drop", name |-> name,
                                        row |-> {}, fields |-> <<>>]]
    /\ UNCHANGED <<srows, data, twice, minted>>

ScanForDrop(c) ==
    /\ smcall[c].pc = "scan"
    /\ smcall' = [smcall EXCEPT ![c].pc = "remove", ![c].row = FirstRow(smcall[c].name)]
    /\ UNCHANGED <<srows, data, twice, minted>>

(* Mutant: the row is looked for by its position, not by its name. *)
RemoveSchema_ByPosition(c) ==
    /\ smcall[c].pc = "remove"
    /\ srows' = [x \in DOMAIN srows \ (IF DOMAIN srows = {} THEN {} ELSE {Min(DOMAIN srows)}) |->
                    srows[x]]
    /\ smcall' = [smcall EXCEPT ![c] = NoSchemaCall]
    /\ UNCHANGED <<data, twice, minted>>

(* remove_schema deletes the first row of the name, and no other. *)
RemoveSchema(c) ==
    /\ smcall[c].pc = "remove"
    /\ srows' = [x \in DOMAIN srows \ smcall[c].row |-> srows[x]]
    /\ smcall' = [smcall EXCEPT ![c] = NoSchemaCall]
    /\ UNCHANGED <<data, twice, minted>>

(* Nodes are inserted without asking for a schema. *)
InsertData(name) ==
    /\ data[name] < MaxData
    /\ data' = [data EXCEPT ![name] = @ + 1]
    /\ UNCHANGED <<srows, smcall, twice, minted>>

SchemaSteps ==
    \/ \E c \in SchemaCalls :
          \/ \E name \in SchemaNames :
                \/ \E defs \in SchemaDefs : CreateSchema(c, name, defs)
                \/ \E force \in BOOLEAN : DropSchema(c, name, force)
          \/ SaveSchema(c)
          \/ ScanForDrop(c)
          \/ RemoveSchema(c)
    \/ \E name \in SchemaNames : InsertData(name)

SchemaSpec == SchemaInit /\ [][SchemaSteps]_schemaVars

-------------------------------------------------------------------------------
(* Properties *)

(* A name has one row unless two creates of it overlapped (mod.rs:148 reads the
   rows before it writes one): then get_schema answers with one of two
   definitions and a drop uncovers the other.                              *)
OneRowEach == \A name \in SchemaNames \ twice' : Cardinality(NamedRows(name)') <= 1

(* A drop that finds its row leaves none of the name and takes none of
   another.                                                                *)
RemovesRight(c) ==
    smcall[c].pc = "remove" /\ smcall'[c].pc = "idle" =>
        /\ \A r \in DOMAIN srows \ DOMAIN srows' : srows[r].name = smcall[c].name
        /\ smcall[c].row \cap DOMAIN srows # {} =>
             \A name \in {smcall[c].name} \ twice : NamedRows(name)' = {}

(* A migrated table has the new version's fields and types, and its index on
   every field both versions have.                                         *)
Reaches(old, new, table) ==
    /\ DOMAIN table = DOMAIN new
    /\ \A f \in DOMAIN new : table[f].type = new[f].type
    /\ \A f \in DOMAIN new \cap DOMAIN old : table[f].indexed = new[f].indexed

SavesRight(c) ==
    smcall[c].pc = "save" =>
        \A r \in DOMAIN srows \cap DOMAIN srows' :
            Reaches(srows[r].fields, srows'[r].fields, Migrate(srows[r].fields, srows'[r].fields))

(* No step of any call leaves a name with two rows (but for overlapping
   creates), removes another's row, or makes a version the migration generated
   from the old one (migration.rs:215-275) does not reach.                 *)
SchemaRowsExact ==
    [][OneRowEach /\ \A c \in SchemaCalls : RemovesRight(c) /\ SavesRight(c)]_schemaVars
================================================================================
