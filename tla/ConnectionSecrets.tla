--------------------------- MODULE ConnectionSecrets ---------------------------
(***************************************************************************)
(* A saved connection and its secrets: ConnectionDialog.tsx (form, "leave  *)
(* blank to keep"), connections/server.ts (what an update keeps) and       *)
(* test-payload.ts (which secret is used).  A secret is known by the kind  *)
(* of authentication it was saved for: what stands in a field is taken for *)
(* a secret of the kind the form shows when it is submitted.  One dialog   *)
(* is open until its save is answered.                                     *)
(***************************************************************************)
EXTENDS Naturals, FiniteSets

CONSTANTS
    ConnTypes,          \* the types offered
    AuthKinds,          \* [ConnTypes -> kinds]
    MaxSubmits, MaxDialogEdits

Blank == "blank"
Typed == "typed"
\* getSecretFieldState is consulted for these types only.
Guarded == {"snowflake", "databricks"} \cap ConnTypes

ASSUME SecretAssumption ==
    /\ DOMAIN AuthKinds = ConnTypes
    /\ \A t \in ConnTypes : AuthKinds[t] # {} /\ Blank \notin AuthKinds[t]
    /\ {MaxSubmits, MaxDialogEdits} \subseteq Nat

VARIABLES
    conn,           \* the row
    shownConn,      \* the row without secrets, as the list shows it
    dialog,         \* the form: type, auth, the credential, and the types whose
                    \* second secret was typed
    existing,       \* the shown row the dialog was opened on
    saving, listLoads,
    staleEdit,      \* history: an edit was made on a list older than the row
    submits, dialogEdits

secretVars == <<conn, shownConn, dialog, existing, saving, listLoads, staleEdit, submits,
                dialogEdits>>

NoConn == [type |-> "none", auth |-> "none", secret |-> Blank, secondary |-> Blank]
NoDialog == [type |-> "none", auth |-> "none", credential |-> Blank, secondary |-> {}]
NoRequest == [form |-> NoDialog, existing |-> NoConn]
NoSecrets(c) == [c EXCEPT !.secret = Blank, !.secondary = Blank]     \* omitSecrets

SecretInit ==
    /\ conn = NoConn /\ shownConn = NoConn /\ dialog = NoDialog /\ existing = NoConn
    /\ saving = NoRequest /\ listLoads = 0 /\ staleEdit = FALSE
    /\ submits = 0 /\ dialogEdits = 0

isEdit == existing # NoConn
UsesSecondary(t, a) == <<t, a>> \in {<<"snowflake", "keypair">>, <<"databricks", "oauth_m2m">>}

\* The secret fields the form shows for a type and a kind.
LakeFields(mode) == IF mode = "external" THEN {"credential"} ELSE {}
RestFields(auth_type) == IF auth_type = "none" THEN {} ELSE {"credential"}
SparkFields(secret_type) == IF secret_type = "none" THEN {} ELSE {"credential"}
SnowflakeFields(auth_type) ==
    IF auth_type = "keypair" THEN {"credential", "secondary"} ELSE {"credential"}
DatabricksFields(auth_type) == IF auth_type = "pat" THEN {"credential"} ELSE {"secondary"}
SecretFields(t, a) ==
    CASE t = "duckdb" -> {}
      [] t = "ducklake" -> LakeFields(a)
      [] t = "rest" -> RestFields(a)
      [] t = "spark" -> SparkFields(a)
      [] t = "snowflake" -> SnowflakeFields(a)
      [] t = "databricks" -> DatabricksFields(a)
      [] OTHER -> {"credential"}
-----------------------------------------------------------------------------
\* The trigger and the reset of the form, then chooseType.
chooseType(t) ==
    /\ dialog = NoDialog /\ conn = NoConn /\ saving = NoRequest
    /\ \E a \in AuthKinds[t] :
         dialog' = [type |-> t, auth |-> a, credential |-> Blank, secondary |-> {}]
    /\ existing' = NoConn
    /\ UNCHANGED <<conn, shownConn, saving, listLoads, staleEdit, submits, dialogEdits>>
\* handleEdit: the effect fills the form from the shown row, secrets blank.
handleEdit ==
    /\ dialog = NoDialog /\ shownConn # NoConn /\ saving = NoRequest
    /\ dialog' = [type |-> shownConn.type, auth |-> shownConn.auth, credential |-> Blank,
                  secondary |-> {}]
    /\ existing' = shownConn
    /\ UNCHANGED <<conn, shownConn, saving, listLoads, staleEdit, submits, dialogEdits>>
handleOpenChange ==
    /\ dialog # NoDialog /\ dialog' = NoDialog
    /\ UNCHANGED <<conn, shownConn, existing, saving, listLoads, staleEdit, submits,
                   dialogEdits>>

\* setF, setD, setR, setS, setSF, setDB: a field of the form.  What was typed
\* stays in the field when the kind changes.
SetFields(d) ==
    /\ dialog # NoDialog /\ d # dialog /\ dialogEdits < MaxDialogEdits
    /\ dialog' = d /\ dialogEdits' = dialogEdits + 1
    /\ UNCHANGED <<conn, shownConn, existing, saving, listLoads, staleEdit, submits>>
SetAuth ==
    /\ dialog # NoDialog /\ ~(isEdit /\ dialog.type = "ducklake")
    /\ \E a \in AuthKinds[dialog.type] : SetFields([dialog EXCEPT !.auth = a])
SetCredential ==
    /\ dialog # NoDialog /\ "credential" \in SecretFields(dialog.type, dialog.auth)
    /\ SetFields([dialog EXCEPT !.credential = Typed])
SetSecondary ==
    /\ dialog # NoDialog /\ "secondary" \in SecretFields(dialog.type, dialog.auth)
    /\ SetFields([dialog EXCEPT !.secondary = @ \cup {dialog.type}])
\* "Change type" or Back, and another card: the credential stays in the form.
handleTypeChange ==
    /\ dialog # NoDialog /\ ~isEdit
    /\ \E t \in ConnTypes \ {dialog.type} : \E a \in AuthKinds[t] :
         SetFields([dialog EXCEPT !.type = t, !.auth = a])

\* getSecretFieldState
AlwaysKeep(t, a) == isEdit
canKeepExisting(t, a) == isEdit /\ existing.auth = a
\* What handleSubmit sends of the secrets, by type.
SingleSecret(d) == [credential |-> d.credential, secondary |-> Blank]
NoSecret(d) == [credential |-> Blank, secondary |-> Blank]
SparkSecrets(d) == SingleSecret(d)      \* secret_type travels in extraConfig
SecondTyped(d) == IF d.type \in d.secondary THEN Typed ELSE Blank
SnowflakeSecrets(d) ==
    [credential |-> d.credential,
     secondary |-> IF d.auth = "keypair" THEN SecondTyped(d) ELSE Blank]
DatabricksSecrets(d) ==
    [credential |-> d.credential,
     secondary |-> IF d.auth = "oauth_m2m" THEN SecondTyped(d) ELSE Blank]
PayloadSecrets(d) ==
    CASE d.type = "duckdb" -> NoSecret(d)
      [] d.type = "spark" -> SparkSecrets(d)
      [] d.type = "snowflake" -> SnowflakeSecrets(d)
      [] d.type = "databricks" -> DatabricksSecrets(d)
      [] OTHER -> SingleSecret(d)
\* The checks of handleSubmit before anything is sent.
SubmitOK(d) ==
    d.type \in Guarded =>
        \/ canKeepExisting(d.type, d.auth)
        \/ IF d.type = "databricks" /\ d.auth = "oauth_m2m" THEN SecondTyped(d) = Typed
           ELSE d.credential # Blank
handleSubmit ==
    /\ dialog # NoDialog /\ saving = NoRequest /\ submits < MaxSubmits
    /\ SubmitOK(dialog)
    /\ saving' = [form |-> dialog, existing |-> existing] /\ submits' = submits + 1
    /\ UNCHANGED <<conn, shownConn, dialog, existing, listLoads, staleEdit, dialogEdits>>
-----------------------------------------------------------------------------
\* updateConnection: a blank secret keeps the stored one, the second one only
\* where the new kind uses it.
SecondaryAfter(f, row) ==
    IF PayloadSecrets(f).secondary = Typed THEN f.auth
    ELSE IF UsesSecondary(f.type, f.auth) THEN row.secondary ELSE Blank
SecretAfter(f, row) == IF PayloadSecrets(f).credential = Typed THEN f.auth ELSE row.secret
Stored(f, row) ==
    [type |-> f.type, auth |-> f.auth, secret |-> SecretAfter(f, row),
     secondary |-> SecondaryAfter(f, row)]

\* createConnection or updateConnection, and the answer: the dialog closes and
\* the list is loaded again.
SaveAnswer ==
    /\ saving # NoRequest
    /\ conn' = Stored(saving.form, IF saving.existing = NoConn THEN NoConn ELSE conn)
    /\ staleEdit' = (staleEdit \/ (saving.existing # NoConn
                                     /\ saving.existing # NoSecrets(conn)))
    /\ saving' = NoRequest /\ dialog' = NoDialog /\ listLoads' = listLoads + 1
    /\ UNCHANGED <<shownConn, existing, submits, dialogEdits>>
SaveRefused ==
    /\ saving # NoRequest /\ saving' = NoRequest
    /\ UNCHANGED <<conn, shownConn, dialog, existing, listLoads, staleEdit, submits, dialogEdits>>
ListAnswer ==
    /\ listLoads > 0 /\ listLoads' = listLoads - 1
    /\ shownConn' = NoSecrets(conn)
    /\ UNCHANGED <<conn, dialog, existing, saving, staleEdit, submits, dialogEdits>>
\* handleDelete of the list: the row goes, and the shown one with it.
deleteConnection ==
    /\ dialog = NoDialog /\ saving = NoRequest /\ shownConn # NoConn
    /\ conn' = NoConn /\ shownConn' = NoConn
    /\ UNCHANGED <<dialog, existing, saving, listLoads, staleEdit, submits, dialogEdits>>

SecretNext ==
    \/ \E t \in ConnTypes : chooseType(t)
    \/ handleEdit
    \/ handleOpenChange
    \/ SetAuth
    \/ SetCredential
    \/ SetSecondary
    \/ handleTypeChange
    \/ handleSubmit
    \/ SaveAnswer
    \/ SaveRefused
    \/ ListAnswer
    \/ deleteConnection
-----------------------------------------------------------------------------
\* buildConnectionTestPayload: the secret sent for the row's kind.
SecretUsed(c) ==
    CASE c.type = "databricks" /\ c.auth = "oauth_m2m" -> c.secondary
      [] c.type = "spark" /\ c.auth = "none" -> Blank
      [] OTHER -> c.secret

\* validation.ts: "leave blank to keep existing ... is only valid if the selected
\* auth type matches the auth type currently stored".  For the types that ask
\* getSecretFieldState, no sequence of edits on a current list leaves a secret
\* that was typed for another kind of authentication.
GuardedSecretsMatch ==
    conn.type \in Guarded /\ ~staleEdit => SecretUsed(conn) = conn.auth

\* The same for every type.
SecretsMatch ==
    conn.type \in ConnTypes => SecretUsed(conn) \in {conn.auth, Blank}

\* server.ts: no second secret survives a change to a kind that does not use it.
NoOrphanSecret == conn.secondary # Blank => UsesSecondary(conn.type, conn.auth)

\* The secrets stored for a connection are those of its kind of authentication.
SecretsOfKind == GuardedSecretsMatch /\ NoOrphanSecret
=============================================================================
