---------------------------- MODULE ConsoleProofs ----------------------------
(***************************************************************************)
(* The admin console for all values of the constants: the HTTP layer (Web) *)
(* and the form templates behind it (Templates).  The two share nothing    *)
(* but this module.                                                        *)
(*                                                                         *)
(* Web.  WebInv says of each request in flight what its answer may set:    *)
(* the cookies it derives are those it was sent with, but for a token      *)
(* where there was none and a message that its page shows; a message it    *)
(* sets is about a committed change.  A task that writes is still to come  *)
(* only for a sender who was an admin, or behind a task that asks for one. *)
(* That rests on the table of routes itself (RoutesOK), and a token to     *)
(* give out exists because pages and answers are finite (TokenExists).     *)
(*                                                                         *)
(* Templates.  The table keeps unique names and one default for each form; *)
(* drafts need no invariant but their type, for what decides is checked in *)
(* the transaction that saves.                                             *)
(***************************************************************************)
EXTENDS Web, Templates, FiniteSetTheorems, SequenceTheorems, TLAPS

(* Tasks and handlers of the router.                                        *)
Whos == {"anyone", "viewer", "admin"}
TaskSet == [who : Whos, token : {"none", "form", "header"}, call : {"none", "read", "write"}]
Results == {"page", "public page", "token", "redirect", "data", "language"}

(* A change asks for a token, and for an admin, unless one was asked for    *)
(* already.                                                                 *)
Guarded(tasks, admin) ==
  \A i \in DOMAIN tasks : tasks[i].call = "write" =>
    /\ tasks[i].token # "none"
    /\ tasks[i].who = "admin" \/ admin \/ \E j \in 1..(i - 1) : tasks[j].who = "admin"

Reads(tasks) == \A i \in DOMAIN tasks : tasks[i].call # "write"

(* What is answered with a message ends with a change.                      *)
EndsWriting(tasks) == tasks # <<>> => tasks[Len(tasks)].call = "write"

HandlerOK(h) ==
  /\ h \in [tasks : Seq(TaskSet), ok : Results, again : Seq(TaskSet), api : BOOLEAN]
  /\ Guarded(h.tasks, FALSE)
  /\ Reads(h.again)
  /\ h.ok = "redirect" => EndsWriting(h.tasks)

LEMMA HandlerFields ==
  ASSUME NEW tasks \in Seq(TaskSet), NEW ok \in Results,
         Guarded(tasks, FALSE), ok = "redirect" => EndsWriting(tasks)
  PROVE  HandlerOK(Handler(tasks, ok))
<1> DEFINE h == Handler(tasks, ok)
<1>1. h.tasks = tasks /\ h.ok = ok /\ h.again = <<>>
      /\ h = [tasks |-> tasks, ok |-> ok, again |-> <<>>, api |-> FALSE]
  BY DEF Handler
<1>2. <<>> \in Seq(TaskSet) /\ Reads(<<>>)
  BY DEF Reads
<1> HIDE DEF h
<1>3. h \in [tasks : Seq(TaskSet), ok : Results, again : Seq(TaskSet), api : BOOLEAN]
  BY <1>1, <1>2
<1> QED BY <1>1, <1>2, <1>3 DEF HandlerOK, h

LEMMA NoTask ==
  ASSUME NEW ok \in Results
  PROVE  HandlerOK(Handler(<<>>, ok))
<1>1. <<>> \in Seq(TaskSet)
  OBVIOUS
<1> QED BY <1>1 DEF HandlerOK, Handler, Guarded, Reads, EndsWriting

LEMMA OneTask ==
  ASSUME NEW ok \in Results, NEW t \in TaskSet,
         t.call = "write" => t.token # "none" /\ t.who = "admin",
         ok = "redirect" => t.call = "write"
  PROVE  HandlerOK(Handler(<<t>>, ok))
<1>1. /\ <<t>> \in Seq(TaskSet) /\ Len(<<t>>) = 1 /\ <<t>>[1] = t /\ DOMAIN <<t>> = {1}
      /\ <<>> \in Seq(TaskSet)
  OBVIOUS
<1> DEFINE tasks == <<t>>
<1>2. tasks \in Seq(TaskSet) /\ Len(tasks) = 1 /\ tasks[1] = t /\ DOMAIN tasks = {1}
  BY <1>1
<1> HIDE DEF tasks
<1>3. Guarded(tasks, FALSE) /\ (ok = "redirect" => EndsWriting(tasks))
  BY <1>2 DEF Guarded, EndsWriting
<1>4. HandlerOK(Handler(tasks, ok))
  BY <1>1, <1>2, <1>3, HandlerFields
<1> QED BY <1>4 DEF tasks

LEMMA TwoTasks ==
  ASSUME NEW ok \in Results, NEW t \in TaskSet, NEW u \in TaskSet,
         t.call # "write",
         u.call = "write" => u.token # "none" /\ t.who = "admin",
         ok = "redirect" => u.call = "write"
  PROVE  HandlerOK(Handler(<<t>> \o <<u>>, ok))
<1> DEFINE tasks == <<t>> \o <<u>>
<1>1. /\ tasks \in Seq(TaskSet) /\ Len(tasks) = 2 /\ DOMAIN tasks = {1, 2}
      /\ tasks[1] = t /\ tasks[2] = u
  OBVIOUS
<1>2. <<>> \in Seq(TaskSet)
  OBVIOUS
<1> HIDE DEF tasks
<1>3. Guarded(tasks, FALSE) /\ (ok = "redirect" => EndsWriting(tasks))
  BY <1>1 DEF Guarded, EndsWriting
<1>4. HandlerOK(Handler(tasks, ok))
  BY <1>1, <1>2, <1>3, HandlerFields
<1> QED BY <1>4 DEF tasks

LEMMA ApiOK ==
  ASSUME NEW h, HandlerOK(h)
  PROVE  HandlerOK(Api(h))
BY DEF HandlerOK, Api

LEMMA AgainOK ==
  ASSUME NEW h, HandlerOK(h), NEW p, HandlerOK(p), Reads(p.tasks)
  PROVE  HandlerOK(RenderedAgain(h, p))
BY DEF HandlerOK, RenderedAgain

(* The shapes that the handlers are made of.                                *)
LEMMA ShapesOK ==
  /\ HandlerOK(page_response) /\ Reads(page_response.tasks)
  /\ HandlerOK(admin_page_response) /\ Reads(admin_page_response.tasks)
  /\ HandlerOK(mutate_form_response)
  /\ HandlerOK(api_view)
  /\ HandlerOK(public_ca_download)
  /\ HandlerOK(api_admin("write")) /\ HandlerOK(api_admin("read"))
<1>1. HandlerOK(page_response) /\ Reads(page_response.tasks)
  <2>1. Task("viewer", "none", "read") \in TaskSet /\ Task("viewer", "none", "read").call = "read"
    BY DEF Task, TaskSet, Whos
  <2>2. HandlerOK(page_response)
    BY <2>1, OneTask DEF page_response, viewer_blocking, Results
  <2>3. page_response.tasks = <<Task("viewer", "none", "read")>>
    BY DEF page_response, viewer_blocking, Handler
  <2> QED BY <2>1, <2>2, <2>3 DEF Reads
<1>2. HandlerOK(admin_page_response) /\ Reads(admin_page_response.tasks)
  <2>1. Task("admin", "none", "read") \in TaskSet /\ Task("admin", "none", "read").call = "read"
    BY DEF Task, TaskSet, Whos
  <2>2. HandlerOK(admin_page_response)
    BY <2>1, OneTask DEF admin_page_response, admin_blocking, Results
  <2>3. admin_page_response.tasks = <<Task("admin", "none", "read")>>
    BY DEF admin_page_response, admin_blocking, Handler
  <2> QED BY <2>1, <2>2, <2>3 DEF Reads
<1>3. HandlerOK(mutate_form_response)
  BY OneTask DEF mutate_form_response, admin_blocking, Results, Task, TaskSet, Whos
<1>4. HandlerOK(api_view)
  BY OneTask, ApiOK DEF api_view, viewer_blocking, Results, Task, TaskSet, Whos
<1>5. HandlerOK(public_ca_download)
  BY OneTask DEF public_ca_download, blocking, Results, Task, TaskSet, Whos
<1>6. HandlerOK(api_admin("write")) /\ HandlerOK(api_admin("read"))
  BY OneTask, ApiOK DEF api_admin, admin_blocking, Results, Task, TaskSet, Whos
<1> QED BY <1>1, <1>2, <1>3, <1>4, <1>5, <1>6

(* Every handler behind the router guards its changes: each task that       *)
(* writes asks for the CSRF token, and for an admin or comes after a task   *)
(* that did (admin_blocking; admin_backup_restore asks before it reads its  *)
(* upload); what renders a form again only reads.                           *)
THEOREM RoutesOK == \A h \in router : HandlerOK(h)
<1>1. /\ HandlerOK(home) /\ HandlerOK(crl_download) /\ HandlerOK(public_ca_cert_download)
      /\ HandlerOK(public_ca_download)
  <2>1. HandlerOK(home)
    BY OneTask DEF home, blocking, Results, Task, TaskSet, Whos
  <2>2. HandlerOK(crl_download)
    BY OneTask DEF crl_download, blocking, Results, Task, TaskSet, Whos
  <2> QED BY <2>1, <2>2, ShapesOK DEF public_ca_cert_download
<1>2. /\ HandlerOK(ca_list) /\ HandlerOK(ca_detail) /\ HandlerOK(cert_detail) /\ HandlerOK(template_list)
      /\ HandlerOK(new_ca_form) /\ HandlerOK(import_ca_form) /\ HandlerOK(new_cert_form)
      /\ HandlerOK(import_cert_form) /\ HandlerOK(new_template_form) /\ HandlerOK(edit_template_form)
      /\ HandlerOK(admin_console) /\ HandlerOK(swagger_page) /\ HandlerOK(inspect_form)
  BY ShapesOK, Zenon DEF ca_list, ca_detail, cert_detail, template_list, new_ca_form, import_ca_form,
     new_cert_form, import_cert_form, new_template_form, edit_template_form, admin_console,
     swagger_page, inspect_form
<1>3. HandlerOK(inspect_form_post)
  BY OneTask DEF inspect_form_post, admin_blocking, Results, Task, TaskSet, Whos
<1>4. HandlerOK(logout) /\ HandlerOK(switch_lang) /\ HandlerOK(api_csrf)
      /\ HandlerOK(api_not_found) /\ HandlerOK(api_method_not_allowed)
  <2>1. \A ok \in Results : HandlerOK(At_once(ok))
    BY NoTask DEF At_once
  <2> QED BY <2>1, ApiOK DEF logout, switch_lang, api_csrf, api_not_found,
             api_method_not_allowed, Results
<1>5. /\ HandlerOK(create_ca_form) /\ HandlerOK(import_ca_form_post) /\ HandlerOK(create_cert_form)
      /\ HandlerOK(import_cert_form_post) /\ HandlerOK(create_template_form)
      /\ HandlerOK(update_template_form) /\ HandlerOK(admin_create_user)
  BY ShapesOK, AgainOK DEF create_ca_form, import_ca_form_post, create_cert_form,
     import_cert_form_post, create_template_form, update_template_form, admin_create_user,
     save_template_response
<1>6. /\ HandlerOK(delete_ca_form) /\ HandlerOK(renew_ca_form) /\ HandlerOK(delete_cert_form)
      /\ HandlerOK(renew_cert_form) /\ HandlerOK(revoke_cert_form) /\ HandlerOK(delete_template_form)
      /\ HandlerOK(admin_delete_user) /\ HandlerOK(admin_nuke) /\ HandlerOK(admin_restore_ca)
      /\ HandlerOK(admin_restore_cert)
  BY ShapesOK, Zenon DEF delete_ca_form, renew_ca_form, delete_cert_form, renew_cert_form,
     revoke_cert_form, delete_template_form, admin_delete_user, admin_nuke, admin_restore_ca,
     admin_restore_cert
<1>7. HandlerOK(admin_backup_restore)
  BY TwoTasks DEF admin_backup_restore, admin_blocking, Results, Task, TaskSet, Whos
<1>8. HandlerOK(download_ca) /\ HandlerOK(download_cert)
  BY OneTask DEF download_ca, download_cert, viewer_blocking, Results, Task, TaskSet, Whos
<1>9. HandlerOK(admin_backup_export) /\ HandlerOK(api_backup_export)
  <2>1. HandlerOK(Handler(admin_blocking("none", "read"), "data"))
    BY OneTask DEF admin_blocking, Results, Task, TaskSet, Whos
  <2> QED BY <2>1, ApiOK DEF admin_backup_export, api_backup_export
<1>10. /\ HandlerOK(api_list_cas) /\ HandlerOK(api_get_ca) /\ HandlerOK(api_list_certs)
       /\ HandlerOK(api_get_cert) /\ HandlerOK(api_list_templates) /\ HandlerOK(api_get_template)
  BY ShapesOK, Zenon DEF api_list_cas, api_get_ca, api_list_certs, api_get_cert,
     api_list_templates, api_get_template
<1>11. HandlerOK(api_find_cert_by_cn)
  <2>1. HandlerOK(Handler(viewer_blocking("none") \o blocking, "data"))
    BY TwoTasks DEF viewer_blocking, blocking, Results, Task, TaskSet, Whos
  <2> QED BY <2>1, ApiOK DEF api_find_cert_by_cn
<1>12. /\ HandlerOK(api_create_ca) /\ HandlerOK(api_import_ca) /\ HandlerOK(api_delete_ca)
       /\ HandlerOK(api_renew_ca) /\ HandlerOK(api_create_cert) /\ HandlerOK(api_import_cert)
       /\ HandlerOK(api_delete_cert) /\ HandlerOK(api_renew_cert) /\ HandlerOK(api_revoke_cert)
       /\ HandlerOK(api_inspect) /\ HandlerOK(api_create_template) /\ HandlerOK(api_update_template)
       /\ HandlerOK(api_delete_template) /\ HandlerOK(api_backup_restore)
  BY ShapesOK, Zenon DEF api_create_ca, api_import_ca, api_delete_ca, api_renew_ca,
     api_create_cert, api_import_cert, api_delete_cert, api_renew_cert, api_revoke_cert,
     api_inspect, api_create_template, api_update_template, api_delete_template, api_backup_restore
<1> QED BY <1>1, <1>2, <1>3, <1>4, <1>5, <1>6, <1>7, <1>8, <1>9, <1>10, <1>11, <1>12, ZenonT(60)
        DEF router

(* A token that is in no page and no answer exists.                         *)
LEMMA TokenExists ==
  ASSUME IsFiniteSet(forms)
  PROVE  csrf_token \in Tokens
<1> DEFINE R == {q \in Slots : HasToken(req[q])}
           T == {req[r].derived["csrf"] : r \in R}
           f == [r \in R |-> req[r].derived["csrf"]]
           n == Cardinality(InUse)
<1>1. IsFiniteSet(R)
  BY SlotsAssumption, FS_Subset DEF SlotsAssumption
<1>2. IsFiniteSet(T)
  <2>1. f \in Surjection(R, T)
    BY DEF Surjection
  <2> HIDE DEF R, T, f
  <2> QED BY <1>1, <2>1, FS_Surjection
<1>3. IsFiniteSet(InUse)
  <2>1. InUse = forms \cup T
    BY DEF InUse
  <2> QED BY <1>2, <2>1, FS_Union
<1>4. n \in Nat
  BY <1>3, FS_CardinalityType
<1>5. IsFiniteSet(1..(n + 1)) /\ Cardinality(1..(n + 1)) = n + 1
  <2> HIDE DEF n
  <2> QED BY <1>4, FS_Interval
<1>6. \E t \in 1..(n + 1) : t \notin InUse
  <2> SUFFICES ASSUME 1..(n + 1) \subseteq InUse
               PROVE  FALSE
    OBVIOUS
  <2>1. Cardinality(1..(n + 1)) <= n
    BY <1>3, FS_Subset
  <2> QED BY <1>4, <1>5, <2>1
<1>7. csrf_token \in 1..(n + 1)
  BY <1>6, Zenon DEF csrf_token
<1> QED BY <1>4, <1>7 DEF Tokens, None

----------------------------------------------------------------------------
(* The invariant.                                                           *)

Cookies == [csrf : Tokens \cup {None}, flash : Nat, lang : Langs \cup {None}]

PendingRecord ==
  [pc : {"waiting", "admitted"}, tasks : Seq(TaskSet), again : Seq(TaskSet), ok : Results,
   api : BOOLEAN, cookies : Cookies, token : Nat, number : Nat, gone : BOOLEAN,
   wasAdmin : BOOLEAN]

(* A request on its way, when the sender is `who' and n have been sent: its *)
(* changes are guarded, and it will be answered with a message only if one  *)
(* of them is the last it does.                                             *)
Pending(q, who, n) ==
  /\ q \in PendingRecord
  /\ q.tasks # <<>>
  /\ Guarded(q.tasks, q.wasAdmin)
  /\ Reads(q.again)
  /\ q.ok = "redirect" => EndsWriting(q.tasks)
  /\ q.number = None => Reads(q.tasks)
  /\ q.number \in 0..n
  /\ q.number # None /\ who = "admin" => q.wasAdmin
  /\ q.pc = "admitted" => Head(q.tasks).call = "write" /\ q.wasAdmin

(* An answer, when the changes d are done: what it derives is what was in   *)
(* its request, but for a token where there was none and a message that is  *)
(* on its page.                                                             *)
Answered(q, d) ==
  /\ q.pc = "answered"
  /\ DOMAIN q.derived \subseteq {"csrf", "flash", "lang"}
  /\ DOMAIN q.seen = DOMAIN q.derived
  /\ "csrf" \in DOMAIN q.derived =>
       /\ q.derived["csrf"] \in Tokens
       /\ q.seen["csrf"] # None => q.derived["csrf"] = q.seen["csrf"]
  /\ "flash" \in DOMAIN q.derived => q.derived["flash"] = None /\ q.seen["flash"] = q.shows
  /\ "lang" \in DOMAIN q.derived =>
       q.derived["lang"] = q.seen["lang"] /\ q.derived["lang"] \in Langs \cup {None}
  /\ q.shows # None => "flash" \in DOMAIN q.derived
  /\ DOMAIN q.fresh \subseteq {"flash", "lang"}
  /\ "flash" \in DOMAIN q.fresh => q.fresh["flash"] \in d
  /\ "lang" \in DOMAIN q.fresh => q.fresh["lang"] \in Langs

RequestOK(q, who, n, d) == q = NoRequest \/ Pending(q, who, n) \/ Answered(q, d)

RequestsOK == DOMAIN req = Slots /\ \A r \in Slots : RequestOK(req[r], role, sent, done)

StateOK ==
  /\ jar \in Cookies
  /\ forms \subseteq Tokens /\ IsFiniteSet(forms)
  /\ role \in Roles
  /\ sent \in Nat
  /\ done \subseteq 1..sent
  /\ owed \in 0..sent
  /\ chosen \in Langs \cup {None}
  /\ late \subseteq {"csrf", "flash", "lang"}

WebInv == StateOK /\ RequestsOK /\ FormsAccepted /\ MessagesFit /\ LanguageKept

----------------------------------------------------------------------------
(* Answers.                                                                 *)

(* The three parts of what a page derives.                                  *)
LEMMA DerivedParts ==
  ASSUME NEW cookies \in Cookies, NEW result, csrf_token \in Tokens,
         NEW d, d = Derived(result, cookies)
  PROVE  /\ DOMAIN d \subseteq {"csrf", "flash", "lang"}
         /\ "csrf" \in DOMAIN d =>
              d["csrf"] \in Tokens /\ (cookies.csrf # None => d["csrf"] = cookies.csrf)
         /\ "flash" \in DOMAIN d => d["flash"] = None /\ result = "page"
         /\ result = "page" /\ cookies.flash # None => "flash" \in DOMAIN d
         /\ "lang" \in DOMAIN d => d["lang"] = cookies.lang
<1>1. Token(cookies) \in Tokens /\ (cookies.csrf # None => Token(cookies) = cookies.csrf)
  BY DEF Token, Cookies
<1> DEFINE C == Cookie("csrf", Token(cookies))
           F == ClearFlash(cookies)
           L == RefreshLang(cookies)
<1>2. DOMAIN C = {"csrf"} /\ C["csrf"] = Token(cookies)
  BY DEF Cookie
<1>3. /\ DOMAIN F = IF cookies.flash # None THEN {"flash"} ELSE {}
      /\ cookies.flash # None => F["flash"] = None
  BY DEF ClearFlash, Cookie
<1>4. /\ DOMAIN L = IF cookies.lang # None THEN {"lang"} ELSE {}
      /\ cookies.lang # None => L["lang"] = cookies.lang
  BY DEF RefreshLang, Cookie
<1> HIDE DEF C, F, L
<1>5. CASE result = "page"
  <2> DEFINE FL == Over(F, L)
  <2>1. /\ DOMAIN FL = DOMAIN F \cup DOMAIN L
        /\ \A k \in DOMAIN FL : FL[k] = IF k \in DOMAIN F THEN F[k] ELSE L[k]
    BY DEF Over
  <2> HIDE DEF FL
  <2>2. d = Over(C, FL)
    BY <1>5 DEF Derived, C, F, L, FL
  <2>3. /\ DOMAIN d = DOMAIN C \cup DOMAIN FL
        /\ \A k \in DOMAIN d : d[k] = IF k \in DOMAIN C THEN C[k] ELSE FL[k]
    BY <2>2 DEF Over
  <2>4. DOMAIN d \subseteq {"csrf", "flash", "lang"} /\ d["csrf"] = Token(cookies)
    BY <1>2, <1>3, <1>4, <2>1, <2>3
  <2>5. /\ "flash" \in DOMAIN d <=> cookies.flash # None
        /\ "flash" \in DOMAIN d => d["flash"] = None
    BY <1>2, <1>3, <1>4, <2>1, <2>3
  <2>6. "lang" \in DOMAIN d => d["lang"] = cookies.lang
    BY <1>2, <1>3, <1>4, <2>1, <2>3
  <2> QED BY <1>1, <1>5, <2>4, <2>5, <2>6
<1>6. CASE result = "public page"
  <2>1. d = L
    BY <1>6 DEF Derived, L
  <2>2. DOMAIN d \subseteq {"lang"} /\ ("lang" \in DOMAIN d => d["lang"] = cookies.lang)
    BY <1>4, <2>1
  <2>3. "csrf" \notin DOMAIN d /\ "flash" \notin DOMAIN d /\ result # "page"
    BY <1>6, <2>2
  <2> QED BY <2>2, <2>3
<1>7. CASE result = "token"
  <2>1. d = C
    BY <1>7 DEF Derived, C
  <2> QED BY <1>1, <1>2, <1>7, <2>1
<1>8. CASE result \notin {"page", "public page", "token"}
  <2>1. d = <<>>
    BY <1>8 DEF Derived
  <2>2. DOMAIN d = {}
    BY <2>1
  <2> QED BY <1>8, <2>2
<1> QED BY <1>5, <1>6, <1>7, <1>8

LEMMA ReplyOK ==
  ASSUME NEW cookies \in Cookies, NEW result, NEW fresh, IsFiniteSet(forms), NEW changes,
         DOMAIN fresh \subseteq {"flash", "lang"},
         "flash" \in DOMAIN fresh => fresh["flash"] \in changes,
         "lang" \in DOMAIN fresh => fresh["lang"] \in Langs
  PROVE  Answered(Reply(result, fresh, cookies), changes)
<1> DEFINE d == Derived(result, cookies)
           q == Reply(result, fresh, cookies)
<1>1. /\ q.pc = "answered" /\ q.fresh = fresh /\ q.derived = d
      /\ q.seen = [k \in DOMAIN d |-> cookies[k]]
      /\ q.shows = IF result = "page" THEN cookies.flash ELSE None
  BY DEF Reply
<1>2. csrf_token \in Tokens
  BY TokenExists
<1> HIDE DEF d, q
<1>3. /\ DOMAIN d \subseteq {"csrf", "flash", "lang"}
      /\ "csrf" \in DOMAIN d =>
           d["csrf"] \in Tokens /\ (cookies.csrf # None => d["csrf"] = cookies.csrf)
      /\ "flash" \in DOMAIN d => d["flash"] = None /\ result = "page"
      /\ result = "page" /\ cookies.flash # None => "flash" \in DOMAIN d
      /\ "lang" \in DOMAIN d => d["lang"] = cookies.lang
  BY <1>2, DerivedParts DEF d
<1>4. cookies["csrf"] = cookies.csrf /\ cookies["flash"] = cookies.flash /\ cookies["lang"] = cookies.lang
      /\ cookies.lang \in Langs \cup {None}
  BY DEF Cookies
<1>5. /\ DOMAIN q.seen = DOMAIN d
      /\ \A k \in DOMAIN d : q.seen[k] = cookies[k]
  BY <1>1
<1>6. Answered(q, changes)
  BY <1>1, <1>3, <1>4, <1>5 DEF Answered
<1> QED BY <1>6 DEF q

----------------------------------------------------------------------------
(* Requests.                                                                *)

(* Requests that are not touched stay as they are: changes are only added.  *)
LEMMA OthersOK ==
  ASSUME NEW q, NEW who, NEW n \in Nat, NEW d, RequestOK(q, who, n, d),
         NEW m \in Nat, n <= m, NEW e, d \subseteq e
  PROVE  RequestOK(q, who, m, e)
<1>1. CASE Pending(q, who, n)
  <2>1. q.number \in 0..m
    BY <1>1 DEF Pending
  <2> QED BY <1>1, <2>1 DEF RequestOK, Pending
<1>2. CASE Answered(q, d)
  BY <1>2 DEF RequestOK, Answered
<1> QED BY <1>1, <1>2 DEF RequestOK

(* A step of one request.                                                   *)
LEMMA Replaced ==
  ASSUME StateOK, RequestsOK, NEW r \in Slots, NEW q,
         req' = [req EXCEPT ![r] = q], RequestOK(q, role, sent', done'),
         role' = role, sent' \in Nat, sent <= sent', done \subseteq done'
  PROVE  RequestsOK'
<1>1. DOMAIN req' = Slots /\ req'[r] = q
  BY DEF RequestsOK
<1>2. ASSUME NEW p \in Slots, p # r
      PROVE  RequestOK(req'[p], role, sent', done')
  <2>1. req'[p] = req[p]
    BY <1>2 DEF RequestsOK
  <2>2. RequestOK(req[p], role, sent, done) /\ sent \in Nat
    BY DEF RequestsOK, StateOK
  <2> QED BY <2>1, <2>2, OthersOK
<1> QED BY <1>1, <1>2 DEF RequestsOK

LEMMA AnswerStep ==
  ASSUME StateOK, RequestsOK, NEW r \in Slots, Pending(req[r], role, sent),
         NEW result, result = "redirect" => req[r].gone \/ req[r].number \in done',
         Answer(r, result), UNCHANGED <<role, sent>>, done \subseteq done'
  PROVE  RequestsOK'
<1> DEFINE fresh == IF result = "redirect" THEN Cookie("flash", req[r].number) ELSE <<>>
<1>1. sent' \in Nat /\ sent <= sent' /\ IsFiniteSet(forms)
  BY DEF StateOK
<1>2. CASE req[r].gone
  <2>1. req' = [req EXCEPT ![r] = NoRequest] /\ RequestOK(NoRequest, role, sent', done')
    BY <1>2 DEF Answer, RequestOK
  <2> QED BY <1>1, <2>1, Replaced
<1>3. CASE ~req[r].gone
  <2>1. req' = [req EXCEPT ![r] = Reply(result, fresh, req[r].cookies)]
    BY <1>3 DEF Answer, Emit
  <2>2. /\ DOMAIN fresh \subseteq {"flash"}
        /\ "flash" \in DOMAIN fresh => fresh["flash"] \in done'
    BY <1>3 DEF Cookie
  <2>3. req[r].cookies \in Cookies
    BY DEF Pending, PendingRecord
  <2> HIDE DEF fresh
  <2>4. Answered(Reply(result, fresh, req[r].cookies), done')
    BY <1>1, <2>2, <2>3, ReplyOK
  <2>5. RequestOK(Reply(result, fresh, req[r].cookies), role, sent', done')
    BY <2>4 DEF RequestOK
  <2> QED BY <1>1, <2>1, <2>5, Replaced
<1> QED BY <1>2, <1>3

LEMMA FailStep ==
  ASSUME StateOK, RequestsOK, NEW r \in Slots, Pending(req[r], role, sent),
         Fail(r), UNCHANGED <<role, sent>>, done \subseteq done'
  PROVE  RequestsOK'
<1> DEFINE result == IF req[r].api THEN "data" ELSE "public page"
<1>1. result # "redirect" /\ Answer(r, result)
  BY DEF Fail
<1> HIDE DEF result
<1> QED BY <1>1, AnswerStep

LEMMA RunStep ==
  ASSUME StateOK, RequestsOK, NEW r \in Slots, Pending(req[r], role, sent),
         NEW tasks \in Seq(TaskSet), NEW again \in Seq(TaskSet), NEW ok \in Results,
         Run(r, tasks, again, ok), tasks # <<>>,
         Guarded(tasks, req[r].wasAdmin), Reads(again), ok = "redirect" => EndsWriting(tasks),
         req[r].number = None => Reads(tasks),
         UNCHANGED <<role, sent>>, done \subseteq done'
  PROVE  RequestsOK'
<1> DEFINE q == [req[r] EXCEPT !.pc = "waiting", !.tasks = tasks, !.again = again, !.ok = ok]
<1>1. req' = [req EXCEPT ![r] = q]
  BY DEF Run, RequestsOK
<1>2. req[r] \in PendingRecord
  BY DEF Pending
<1>3. /\ q \in PendingRecord
      /\ q.pc = "waiting" /\ q.tasks = tasks /\ q.again = again /\ q.ok = ok
      /\ q.number = req[r].number /\ q.wasAdmin = req[r].wasAdmin
  BY <1>2 DEF PendingRecord
<1> HIDE DEF q
<1>4. Pending(q, role, sent)
  BY <1>3 DEF Pending
<1>5. RequestOK(q, role, sent', done') /\ sent' \in Nat /\ sent <= sent'
  BY <1>4 DEF RequestOK, StateOK
<1> QED BY <1>1, <1>5, Replaced

(* What is left of a list of tasks when the first is done.                  *)
LEMMA TailOK ==
  ASSUME NEW tasks \in Seq(TaskSet), tasks # <<>>, Len(tasks) # 1,
         NEW before \in BOOLEAN, Guarded(tasks, before),
         NEW now \in BOOLEAN, before \/ Head(tasks).who = "admin" => now
  PROVE  /\ Tail(tasks) \in Seq(TaskSet) /\ Tail(tasks) # <<>>
         /\ Guarded(Tail(tasks), now)
         /\ EndsWriting(tasks) => EndsWriting(Tail(tasks))
         /\ Reads(tasks) => Reads(Tail(tasks))
<1> DEFINE rest == Tail(tasks)
<1>6. /\ Len(tasks) \in Nat /\ Len(tasks) > 1
      /\ DOMAIN tasks = 1..Len(tasks) /\ Head(tasks) = tasks[1]
  <2>1. Len(tasks) \in Nat \ {0}
    BY EmptySeq
  <2>2. DOMAIN tasks = 1..Len(tasks)
    BY LenProperties
  <2> QED BY <2>1, <2>2
<1>7. rest \in Seq(TaskSet) /\ Len(rest) = Len(tasks) - 1
  OBVIOUS
<1>1. /\ rest \in Seq(TaskSet) /\ rest # <<>> /\ Len(rest) = Len(tasks) - 1
      /\ Len(rest) \in Nat /\ Len(rest) > 0 /\ DOMAIN rest = 1..Len(rest)
      /\ DOMAIN tasks = 1..Len(tasks) /\ Head(tasks) = tasks[1]
  <2> HIDE DEF rest
  <2> QED BY <1>6, <1>7
<1>2. \A i \in 1..Len(rest) : rest[i] = tasks[i + 1] /\ i + 1 \in 1..Len(tasks)
  BY <1>1
<1> HIDE DEF rest
<1>3. Guarded(rest, now)
  <2> SUFFICES ASSUME NEW i \in 1..Len(rest), rest[i].call = "write"
               PROVE  /\ rest[i].token # "none"
                      /\ rest[i].who = "admin" \/ now \/ \E j \in 1..(i - 1) : rest[j].who = "admin"
    BY <1>1 DEF Guarded
  <2>1. /\ tasks[i + 1].token # "none"
        /\ tasks[i + 1].who = "admin" \/ before \/ \E j \in 1..i : tasks[j].who = "admin"
    BY <1>1, <1>2 DEF Guarded
  <2>2. ASSUME NEW j \in 1..i, tasks[j].who = "admin", ~now
        PROVE  \E k \in 1..(i - 1) : rest[k].who = "admin"
    <3>1. j # 1
      BY <1>1, <2>2
    <3>2. j - 1 \in 1..(i - 1) /\ j - 1 \in 1..Len(rest) /\ (j - 1) + 1 = j
      BY <1>1, <3>1
    <3>3. rest[j - 1].who = "admin"
      BY <1>2, <2>2, <3>2
    <3> QED BY <3>2, <3>3
  <2> QED BY <1>2, <2>1, <2>2
<1>4. EndsWriting(tasks) => EndsWriting(rest)
  BY <1>1, <1>2 DEF EndsWriting
<1>5. Reads(tasks) => Reads(rest)
  BY <1>1, <1>2 DEF Reads
<1> QED BY <1>1, <1>3, <1>4, <1>5 DEF rest

LEMMA ReadStep ==
  ASSUME StateOK, RequestsOK, NEW r \in Slots, Read(r)
  PROVE  RequestsOK'
<1> DEFINE q == req[r]
<1>1. Pending(q, role, sent)
  BY DEF RequestsOK, RequestOK, Read, NoRequest, Answered
<1>2. UNCHANGED <<role, sent>> /\ done \subseteq done'
  BY DEF Read, server
<1>3. CASE Fail(r)
  BY <1>1, <1>2, <1>3, FailStep
<1>4. CASE NextTask(r)
  <2>1. /\ q.tasks \in Seq(TaskSet) /\ q.tasks # <<>> /\ q.wasAdmin \in BOOLEAN /\ q.gone \in BOOLEAN
        /\ q.again \in Seq(TaskSet) /\ q.ok \in Results /\ Head(q.tasks) = q.tasks[1]
        /\ DOMAIN q.tasks = 1..Len(q.tasks) /\ Len(q.tasks) \in Nat /\ Len(q.tasks) > 0
    BY <1>1 DEF Pending, PendingRecord
  <2>2. Head(q.tasks).call # "write"
    BY DEF Read
  <2>3. CASE Len(q.tasks) = 1 \/ q.gone
    <3>1. q.ok = "redirect" => q.gone
      BY <1>1, <2>1, <2>2, <2>3 DEF Pending, EndsWriting
    <3>2. Answer(r, q.ok)
      BY <1>4, <2>3 DEF NextTask
    <3> QED BY <1>1, <1>2, <3>1, <3>2, AnswerStep
  <2>4. CASE Len(q.tasks) # 1 /\ ~q.gone
    <3>1. Run(r, Tail(q.tasks), q.again, q.ok)
      BY <1>4, <2>4 DEF NextTask
    <3>2. Head(q.tasks).who = "admin" => role = "admin"
      BY DEF Read, Allowed
    <3>3. /\ Tail(q.tasks) \in Seq(TaskSet) /\ Tail(q.tasks) # <<>>
          /\ EndsWriting(q.tasks) => EndsWriting(Tail(q.tasks))
          /\ Reads(q.tasks) => Reads(Tail(q.tasks))
      BY <1>1, <2>1, <2>4, TailOK DEF Pending
    <3>4. Guarded(Tail(q.tasks), q.wasAdmin)
      <4>1. CASE q.number = None
        <5>1. Reads(Tail(q.tasks))
          BY <1>1, <3>3, <4>1 DEF Pending
        <5> QED BY <5>1 DEF Reads, Guarded
      <4>2. CASE q.number # None
        <5>1. q.wasAdmin \/ Head(q.tasks).who = "admin" => q.wasAdmin
          BY <1>1, <3>2, <4>2 DEF Pending
        <5> QED BY <1>1, <2>1, <2>4, <5>1, TailOK DEF Pending
      <4> QED BY <4>1, <4>2
    <3> HIDE DEF q
    <3> QED BY <1>1, <1>2, <2>1, <3>1, <3>3, <3>4, RunStep DEF q, Pending
  <2> QED BY <2>1, <2>3, <2>4
<1> QED BY <1>3, <1>4 DEF Read

LEMMA RefuseStep ==
  ASSUME StateOK, RequestsOK, NEW r \in Slots, RefuseRole(r) \/ RefuseToken(r)
  PROVE  RequestsOK'
<1>1. Pending(req[r], role, sent)
  BY DEF RequestsOK, RequestOK, RefuseRole, RefuseToken, NoRequest, Answered
<1>2. UNCHANGED <<role, sent>> /\ done \subseteq done' /\ Fail(r)
  BY DEF RefuseRole, RefuseToken, server
<1> QED BY <1>1, <1>2, FailStep

LEMMA AuthenticateStep ==
  ASSUME StateOK, RequestsOK, NEW r \in Slots, Authenticate(r)
  PROVE  RequestsOK'
<1> DEFINE q == req[r]
           p == [q EXCEPT !.pc = "admitted"]
<1>1. Pending(q, role, sent)
  BY DEF RequestsOK, RequestOK, Authenticate, NoRequest, Answered
<1>2. UNCHANGED <<role, sent, done>> /\ req' = [req EXCEPT ![r] = p]
  BY DEF Authenticate, server
<1>3. q \in PendingRecord
  BY <1>1 DEF Pending
<1>4. /\ p \in PendingRecord /\ p.pc = "admitted" /\ p.tasks = q.tasks /\ p.again = q.again
      /\ p.ok = q.ok /\ p.number = q.number /\ p.wasAdmin = q.wasAdmin
  BY <1>3 DEF PendingRecord
<1>5. Head(q.tasks).call = "write" /\ (Head(q.tasks).who = "admin" => role = "admin")
  BY DEF Authenticate, Allowed
<1>6. 1 \in DOMAIN q.tasks /\ Head(q.tasks) = q.tasks[1]
  <2>1. q.tasks \in Seq(TaskSet) /\ q.tasks # <<>>
    BY <1>1, <1>3 DEF Pending, PendingRecord
  <2>2. Len(q.tasks) \in Nat \ {0} /\ DOMAIN q.tasks = 1..Len(q.tasks)
    BY <2>1, EmptySeq, LenProperties
  <2> QED BY <2>2
<1>7. q.number # None
  BY <1>1, <1>5, <1>6 DEF Pending, Reads
<1>8. q.wasAdmin
  BY <1>1, <1>5, <1>6, <1>7 DEF Pending, Guarded
<1> HIDE DEF p
<1>9. Pending(p, role, sent)
  BY <1>1, <1>4, <1>5, <1>8 DEF Pending
<1>10. RequestOK(p, role, sent', done') /\ sent' \in Nat /\ sent <= sent'
  BY <1>2, <1>9 DEF RequestOK, StateOK
<1> QED BY <1>2, <1>10, Replaced

(* The change is of a request of an admin, whose token is that of the jar   *)
(* it was sent with.                                                        *)
LEMMA Admitted ==
  ASSUME StateOK, RequestsOK, NEW r \in Slots, req[r].pc = "admitted"
  PROVE  /\ Pending(req[r], role, sent)
         /\ req[r].number \in 1..sent
         /\ req[r].wasAdmin
         /\ MayCall(r) => TokenFits(r)
<1> DEFINE q == req[r]
<1>1. Pending(q, role, sent)
  BY DEF RequestsOK, RequestOK, NoRequest, Answered
<1>2. 1 \in DOMAIN q.tasks /\ Head(q.tasks) = q.tasks[1]
  <2>1. q.tasks \in Seq(TaskSet) /\ q.tasks # <<>>
    BY <1>1 DEF Pending, PendingRecord
  <2>2. Len(q.tasks) \in Nat \ {0} /\ DOMAIN q.tasks = 1..Len(q.tasks)
    BY <2>1, EmptySeq, LenProperties
  <2> QED BY <2>2
<1>3. Head(q.tasks).call = "write" /\ q.wasAdmin
  BY <1>1 DEF Pending
<1>4. q.number # None /\ Head(q.tasks).token # "none"
  BY <1>1, <1>2, <1>3 DEF Pending, Reads, Guarded
<1>5. q.number \in 1..sent
  BY <1>1, <1>4 DEF Pending, None, StateOK
<1> QED BY <1>1, <1>3, <1>4, <1>5 DEF MayCall

LEMMA WriteStep ==
  ASSUME StateOK, RequestsOK, NEW r \in Slots, Write(r)
  PROVE  RequestsOK' /\ StateOK'
<1> DEFINE q == req[r]
<1>1. Pending(q, role, sent) /\ q.number \in 1..sent /\ q.wasAdmin
  BY Admitted DEF Write
<1>2. UNCHANGED <<server, sent>> /\ (Commit(r) \/ done' = done)
  BY DEF Write
<1>3. UNCHANGED <<role, sent>> /\ done \subseteq done' /\ done' \subseteq 1..sent
  BY <1>1, <1>2 DEF server, Commit, StateOK
<1>4. StateOK'
  BY <1>2, <1>3 DEF StateOK, server, audit, Cookies
<1>5. CASE Fail(r)
  BY <1>1, <1>3, <1>4, <1>5, FailStep
<1>6. /\ q.tasks \in Seq(TaskSet) /\ q.tasks # <<>> /\ q.gone \in BOOLEAN /\ q.wasAdmin \in BOOLEAN
      /\ q.again \in Seq(TaskSet) /\ q.ok \in Results /\ Guarded(q.tasks, q.wasAdmin)
  BY <1>1 DEF Pending, PendingRecord
<1>7. CASE RenderAgain(r)
  <2>1. CASE q.again # <<>> /\ Run(r, q.again, <<>>, "page")
    <3>1. Reads(q.again) /\ Guarded(q.again, q.wasAdmin)
      BY <1>1 DEF Pending, Reads, Guarded
    <3>2. <<>> \in Seq(TaskSet) /\ Reads(<<>>) /\ "page" \in Results
      BY DEF Reads, Results
    <3> HIDE DEF q
    <3> QED BY <1>1, <1>3, <1>4, <1>6, <2>1, <3>1, <3>2, RunStep DEF q
  <2> QED BY <1>5, <1>7, <2>1 DEF RenderAgain
<1>8. CASE NextTask(r) /\ Commit(r)
  <2>1. CASE Len(q.tasks) = 1 \/ q.gone
    <3>1. Answer(r, q.ok) /\ q.number \in done'
      BY <1>8, <2>1 DEF NextTask, Commit
    <3> QED BY <1>1, <1>3, <1>4, <3>1, AnswerStep
  <2>2. CASE Len(q.tasks) # 1 /\ ~q.gone
    <3>1. Run(r, Tail(q.tasks), q.again, q.ok)
      BY <1>8, <2>2 DEF NextTask
    <3>2. /\ Tail(q.tasks) \in Seq(TaskSet) /\ Tail(q.tasks) # <<>>
          /\ Guarded(Tail(q.tasks), q.wasAdmin)
          /\ EndsWriting(q.tasks) => EndsWriting(Tail(q.tasks))
          /\ Reads(q.tasks) => Reads(Tail(q.tasks))
      <4>1. q.wasAdmin \/ Head(q.tasks).who = "admin" => q.wasAdmin
        BY <1>1
      <4> QED BY <1>6, <2>2, <4>1, TailOK
    <3> HIDE DEF q
    <3> QED BY <1>1, <1>3, <1>4, <1>6, <3>1, <3>2, RunStep DEF q, Pending
  <2> QED BY <1>6, <2>1, <2>2
<1> QED BY <1>4, <1>5, <1>7, <1>8 DEF Write

LEMMA SendStep ==
  ASSUME StateOK, RequestsOK, NEW r \in Slots, NEW h \in Handlers, NEW token, Send(r, h, token)
  PROVE  RequestsOK' /\ StateOK'
<1> DEFINE number == IF Writes(h) THEN sent + 1 ELSE None
           q == [pc |-> "waiting", tasks |-> h.tasks, again |-> h.again, ok |-> h.ok, api |-> h.api,
                 cookies |-> jar, token |-> token, number |-> number,
                 gone |-> FALSE, wasAdmin |-> Writes(h) /\ role = "admin"]
<1>1. HandlerOK(h) /\ h.tasks # <<>>
  BY RoutesOK, HandlersAssumption DEF HandlersAssumption, Send
<1>2. req' = [req EXCEPT ![r] = q] /\ UNCHANGED <<jar, forms, role, audit, done>>
      /\ sent' = sent + IF Writes(h) THEN 1 ELSE 0
  BY DEF Send, server
<1>3. sent' \in Nat /\ sent <= sent' /\ number \in 0..sent'
  BY <1>2 DEF StateOK, None
<1>4. StateOK'
  BY <1>2, <1>3 DEF StateOK, audit, Cookies
<1>5. token \in Nat
  <2>1. token \in forms \/ token \in {None}
    BY DEF Send
  <2>2. forms \subseteq Nat /\ None \in Nat
    BY DEF StateOK, Tokens, None
  <2> QED BY <2>1, <2>2
<1>6. number = None => Reads(h.tasks)
  BY DEF Writes, RangeOf, Reads, StateOK, None
<1>7. q \in PendingRecord
  BY <1>1, <1>3, <1>5 DEF PendingRecord, HandlerOK, StateOK
<1>8. Guarded(h.tasks, q.wasAdmin)
  BY <1>1 DEF HandlerOK, Guarded
<1>9. number # None => Writes(h)
  OBVIOUS
<1>10. Pending(q, role, sent')
  BY <1>1, <1>3, <1>6, <1>7, <1>8, <1>9 DEF Pending, HandlerOK
<1>11. RequestOK(q, role, sent', done') /\ role' = role /\ done \subseteq done'
  BY <1>2, <1>10 DEF RequestOK
<1> HIDE DEF q
<1> QED BY <1>2, <1>3, <1>4, <1>11, Replaced

LEMMA AskStep ==
  ASSUME StateOK, RequestsOK, NEW r \in Slots, Malformed(r) \/ \E h \in Handlers : Ask(r, h)
  PROVE  RequestsOK'
<1>1. PICK result, fresh :
        /\ Emit(r, Reply(result, fresh, jar))
        /\ fresh = <<>> \/ \E l \in Langs : fresh = Cookie("lang", l)
  BY DEF Malformed, Ask
<1>2. UNCHANGED <<role, sent, done>>
  BY DEF Malformed, Ask, server
<1>3. DOMAIN fresh \subseteq {"lang"} /\ ("lang" \in DOMAIN fresh => fresh["lang"] \in Langs)
  BY <1>1 DEF Cookie
<1>4. jar \in Cookies /\ IsFiniteSet(forms) /\ sent' \in Nat /\ sent <= sent' /\ done \subseteq done'
  BY <1>2 DEF StateOK
<1>5. Answered(Reply(result, fresh, jar), done')
  BY <1>3, <1>4, ReplyOK
<1>6. req' = [req EXCEPT ![r] = Reply(result, fresh, jar)]
  BY <1>1 DEF Emit
<1>7. RequestOK(Reply(result, fresh, jar), role, sent', done')
  BY <1>5 DEF RequestOK
<1> QED BY <1>2, <1>4, <1>6, <1>7, Replaced

LEMMA GiveUpStep ==
  ASSUME StateOK, RequestsOK, NEW r \in Slots, GiveUp(r)
  PROVE  RequestsOK'
<1>1. UNCHANGED <<role, sent, done>> /\ sent' \in Nat /\ sent <= sent' /\ done \subseteq done'
  BY DEF GiveUp, server, StateOK
<1>2. CASE req' = [req EXCEPT ![r] = NoRequest]
  <2>1. RequestOK(NoRequest, role, sent', done')
    BY DEF RequestOK
  <2> QED BY <1>1, <1>2, <2>1, Replaced
<1>3. CASE req[r].pc \in {"waiting", "admitted"} /\ req' = [req EXCEPT ![r].gone = TRUE]
  <2> DEFINE q == req[r]
             p == [q EXCEPT !.gone = TRUE]
  <2>1. Pending(q, role, sent)
    BY <1>3 DEF RequestsOK, RequestOK, NoRequest, Answered
  <2>2. q \in PendingRecord
    BY <2>1 DEF Pending
  <2>3. /\ p \in PendingRecord /\ p.pc = q.pc /\ p.tasks = q.tasks /\ p.again = q.again
        /\ p.ok = q.ok /\ p.number = q.number /\ p.wasAdmin = q.wasAdmin
    BY <2>2 DEF PendingRecord
  <2>4. req' = [req EXCEPT ![r] = p]
    BY <1>3 DEF RequestsOK
  <2> HIDE DEF p
  <2>5. RequestOK(p, role, sent', done')
    BY <1>1, <2>1, <2>3 DEF RequestOK, Pending
  <2> QED BY <1>1, <2>4, <2>5, Replaced
<1> QED BY <1>2, <1>3 DEF GiveUp

LEMMA SetRoleStep ==
  ASSUME StateOK, RequestsOK, NEW new \in Roles, SetRole(new)
  PROVE  RequestsOK' /\ StateOK'
<1>1. UNCHANGED <<jar, forms, sent, done, audit>> /\ role' = new
  BY DEF SetRole
<1>2. StateOK'
  BY <1>1 DEF StateOK, audit, Cookies
<1>3. ASSUME NEW r \in Slots
      PROVE  RequestOK(req'[r], new, sent, done)
  <2> DEFINE q == req[r]
             p == [q EXCEPT !.wasAdmin = @ \/ new = "admin"]
  <2>1. req'[r] = IF q.pc \in {"waiting", "admitted"} /\ q.number # None THEN p ELSE q
    BY DEF SetRole
  <2>2. RequestOK(q, role, sent, done)
    BY DEF RequestsOK
  <2>3. CASE q = NoRequest
    BY <2>1, <2>3 DEF NoRequest, RequestOK
  <2>4. CASE Answered(q, done)
    BY <2>1, <2>4 DEF Answered, RequestOK
  <2>5. CASE Pending(q, role, sent)
    <3>1. CASE q.number = None
      BY <2>1, <2>5, <3>1 DEF RequestOK, Pending
    <3>2. CASE q.number # None
      <4>1. q \in PendingRecord
        BY <2>5 DEF Pending
      <4>2. q.pc \in {"waiting", "admitted"} /\ q.wasAdmin \in BOOLEAN
        BY <4>1 DEF PendingRecord
      <4>3. req'[r] = p
        BY <2>1, <3>2, <4>2
      <4>4. /\ p \in PendingRecord /\ p.pc = q.pc /\ p.tasks = q.tasks /\ p.again = q.again
            /\ p.ok = q.ok /\ p.number = q.number
            /\ q.wasAdmin => p.wasAdmin
            /\ new = "admin" => p.wasAdmin
        BY <4>1 DEF PendingRecord
      <4> HIDE DEF p
      <4>5. Guarded(p.tasks, p.wasAdmin)
        BY <2>5, <4>4 DEF Pending, Guarded
      <4>6. Pending(p, new, sent)
        BY <2>5, <4>4, <4>5 DEF Pending
      <4> QED BY <4>3, <4>6 DEF RequestOK
    <3> QED BY <3>1, <3>2
  <2> QED BY <2>2, <2>3, <2>4, <2>5 DEF RequestOK
<1>4. DOMAIN req' = Slots
  BY DEF SetRole
<1> QED BY <1>1, <1>2, <1>3, <1>4 DEF RequestsOK

----------------------------------------------------------------------------
(* The browser.                                                             *)

JarFits == FormsAccepted /\ MessagesFit /\ LanguageKept

LEMMA ReceiveStep ==
  ASSUME WebInv, NEW r \in Slots, Receive(r)
  PROVE  WebInv'
<1> DEFINE q == req[r]
           F == q.fresh
           D == q.derived
<1>1. Answered(q, done)
  BY DEF WebInv, RequestsOK, RequestOK, Receive, NoRequest, Pending, PendingRecord
<1>2. StateOK /\ RequestsOK /\ FormsAccepted /\ MessagesFit /\ LanguageKept
  BY DEF WebInv
<1>3. /\ jar' = Over(F, Over(D, jar))
      /\ forms' = forms \union {D[k] : k \in DOMAIN D \intersect {"csrf"}}
      /\ late' = Late(q)
      /\ owed' = IF "flash" \in DOMAIN F THEN F["flash"]
                 ELSE IF q.shows = owed \/ "flash" \in late' THEN None ELSE owed
      /\ chosen' = IF "lang" \in DOMAIN F THEN F["lang"]
                   ELSE IF "lang" \in late' THEN None ELSE chosen
      /\ req' = [req EXCEPT ![r] = NoRequest]
      /\ UNCHANGED <<role, sent, done>>
  BY DEF Receive
<1> HIDE DEF q, F, D
<1>4. /\ DOMAIN F \subseteq {"flash", "lang"} /\ DOMAIN D \subseteq {"csrf", "flash", "lang"}
      /\ DOMAIN q.seen = DOMAIN D
      /\ "csrf" \in DOMAIN D => D["csrf"] \in Tokens /\ (q.seen["csrf"] # None => D["csrf"] = q.seen["csrf"])
      /\ "flash" \in DOMAIN D => D["flash"] = None /\ q.seen["flash"] = q.shows
      /\ "lang" \in DOMAIN D => D["lang"] = q.seen["lang"] /\ D["lang"] \in Langs \cup {None}
      /\ q.shows # None => "flash" \in DOMAIN D
      /\ "flash" \in DOMAIN F => F["flash"] \in done
      /\ "lang" \in DOMAIN F => F["lang"] \in Langs
  BY <1>1 DEF Answered, F, D
<1>5. DOMAIN jar = {"csrf", "flash", "lang"}
      /\ jar["csrf"] = jar.csrf /\ jar["flash"] = jar.flash /\ jar["lang"] = jar.lang
      /\ jar.csrf \in Tokens \cup {None} /\ jar.flash \in Nat /\ jar.lang \in Langs \cup {None}
  BY <1>2 DEF StateOK, Cookies
<1>6. /\ DOMAIN jar' = {"csrf", "flash", "lang"}
      /\ \A k \in {"csrf", "flash", "lang"} :
           jar'[k] = IF k \in DOMAIN F THEN F[k] ELSE IF k \in DOMAIN D THEN D[k] ELSE jar[k]
      /\ jar' = [k \in {"csrf", "flash", "lang"} |-> jar'[k]]
  <2> DEFINE J == Over(D, jar)
  <2>1. DOMAIN J = {"csrf", "flash", "lang"}
        /\ \A k \in {"csrf", "flash", "lang"} : J[k] = IF k \in DOMAIN D THEN D[k] ELSE jar[k]
    BY <1>4, <1>5 DEF Over
  <2> HIDE DEF J
  <2>2. jar' = Over(F, J)
    BY <1>3 DEF J
  <2> QED BY <1>4, <2>1, <2>2 DEF Over
<1>7. late' = (late \cup {k \in DOMAIN D : q.seen[k] # jar[k]}) \ DOMAIN F
  BY <1>3, <1>4 DEF Late, F
<1>8. /\ jar'.csrf = IF "csrf" \in DOMAIN D THEN D["csrf"] ELSE jar.csrf
      /\ jar'.flash = IF "flash" \in DOMAIN F THEN F["flash"] ELSE IF "flash" \in DOMAIN D THEN None ELSE jar.flash
      /\ jar'.lang = IF "lang" \in DOMAIN F THEN F["lang"] ELSE IF "lang" \in DOMAIN D THEN D["lang"] ELSE jar.lang
  BY <1>4, <1>5, <1>6
<1>9. forms' = IF "csrf" \in DOMAIN D THEN forms \cup {D["csrf"]} ELSE forms
  BY <1>3
<1>10. jar' \in Cookies
  <2>1. done \subseteq Nat
    BY <1>2 DEF StateOK
  <2>2. jar'.flash \in Nat
    <3>1. "flash" \in DOMAIN F => F["flash"] \in Nat
      BY <1>4, <2>1
    <3>2. None \in Nat /\ jar.flash \in Nat
      BY <1>5 DEF None
    <3> QED BY <1>8, <3>1, <3>2
  <2>3. jar'.csrf \in Tokens \cup {None} /\ jar'.lang \in Langs \cup {None}
    BY <1>4, <1>5, <1>8
  <2> QED BY <1>6, <2>2, <2>3 DEF Cookies
<1>12. StateOK'
  <2>1. forms' \subseteq Tokens /\ IsFiniteSet(forms')
    BY <1>2, <1>4, <1>9, FS_AddElement DEF StateOK
  <2>2. late' \subseteq {"csrf", "flash", "lang"}
    BY <1>2, <1>4, <1>7 DEF StateOK
  <2>3. owed' \in 0..sent
    <3>1. done \subseteq 0..sent /\ 0 \in 0..sent /\ owed \in 0..sent
      BY <1>2 DEF StateOK
    <3> QED BY <1>4, <1>3, <3>1 DEF None
  <2>4. chosen' \in Langs \cup {None}
    BY <1>2, <1>4, <1>3 DEF StateOK
  <2> QED BY <1>2, <1>3, <1>10, <2>1, <2>2, <2>3, <2>4 DEF StateOK
<1>13. RequestsOK'
  <2>1. RequestOK(NoRequest, role, sent', done') /\ sent' \in Nat /\ sent <= sent' /\ done \subseteq done'
    BY <1>2, <1>3 DEF RequestOK, StateOK
  <2> QED BY <1>2, <1>3, <2>1, Replaced
<1>14. FormsAccepted'
  <2> SUFFICES ASSUME "csrf" \notin late', NEW token \in forms'
               PROVE  token = jar'.csrf
    BY DEF FormsAccepted
  <2>1. "csrf" \notin late /\ ("csrf" \in DOMAIN D => q.seen["csrf"] = jar.csrf)
    BY <1>4, <1>5, <1>7
  <2>2. \A t \in forms : t = jar.csrf /\ t # None
    BY <1>2, <2>1 DEF FormsAccepted, StateOK, Tokens
  <2> QED BY <1>4, <1>8, <1>9, <2>1, <2>2
<1>15. MessagesFit'
  <2>1. jar'.flash \in done \cup {None}
    BY <1>2, <1>4, <1>8 DEF MessagesFit
  <2>2. ASSUME "flash" \notin late'
        PROVE  jar'.flash = owed'
    <3>1. CASE "flash" \in DOMAIN F
      BY <1>8, <1>3, <3>1
    <3>2. CASE "flash" \notin DOMAIN F
      <4>1. "flash" \notin late /\ ("flash" \in DOMAIN D => q.seen["flash"] = jar.flash)
        BY <1>4, <1>5, <1>7, <2>2, <3>2
      <4>2. jar.flash = owed
        BY <1>2, <4>1 DEF MessagesFit
      <4>3. CASE "flash" \in DOMAIN D
        BY <1>4, <1>8, <1>3, <3>2, <4>1, <4>2, <4>3
      <4>4. CASE "flash" \notin DOMAIN D
        BY <1>4, <1>8, <1>3, <2>2, <3>2, <4>2, <4>4
      <4> QED BY <4>3, <4>4
    <3> QED BY <3>1, <3>2
  <2> QED BY <1>3, <2>1, <2>2 DEF MessagesFit
<1>16. LanguageKept'
  <2> SUFFICES ASSUME "lang" \notin late'
               PROVE  jar'.lang = chosen'
    BY DEF LanguageKept
  <2>1. CASE "lang" \in DOMAIN F
    BY <1>8, <1>3, <2>1
  <2>2. CASE "lang" \notin DOMAIN F
    <3>1. "lang" \notin late /\ ("lang" \in DOMAIN D => q.seen["lang"] = jar.lang)
      BY <1>4, <1>5, <1>7, <2>2
    <3>2. jar.lang = chosen
      BY <1>2, <3>1 DEF LanguageKept
    <3> QED BY <1>4, <1>8, <1>3, <2>2, <3>1, <3>2
  <2> QED BY <2>1, <2>2
<1> QED BY <1>12, <1>13, <1>14, <1>15, <1>16 DEF WebInv

LEMMA WebInvariant == WebSpec => []WebInv
<1>1. WebInit => WebInv
  <2> SUFFICES ASSUME WebInit
               PROVE  WebInv
    OBVIOUS
  <2>1. StateOK
    BY FS_EmptySet DEF WebInit, StateOK, Cookies, None
  <2>2. RequestsOK
    BY DEF WebInit, RequestsOK, RequestOK
  <2>3. FormsAccepted /\ MessagesFit /\ LanguageKept
    BY DEF WebInit, FormsAccepted, MessagesFit, LanguageKept
  <2> QED BY <2>1, <2>2, <2>3 DEF WebInv
<1>2. WebInv /\ [WebNext]_webVars => WebInv'
  <2> SUFFICES ASSUME WebInv, [WebNext]_webVars
               PROVE  WebInv'
    OBVIOUS
  <2>1. StateOK /\ RequestsOK /\ JarFits
    BY DEF WebInv, JarFits
  (* Steps that leave the browser alone.                                    *)
  <2>2. ASSUME UNCHANGED <<jar, forms, audit>>, StateOK', RequestsOK', done \subseteq done'
        PROVE  WebInv'
    BY <2>1, <2>2 DEF WebInv, JarFits, FormsAccepted, MessagesFit, LanguageKept, audit
  <2>3. ASSUME UNCHANGED <<server, sent, done>>, RequestsOK'
        PROVE  WebInv'
    <3>1. StateOK'
      BY <2>1, <2>3 DEF StateOK, server, audit, Cookies
    <3> QED BY <2>2, <2>3, <3>1 DEF server
  <2>4. ASSUME NEW r \in Slots, NEW h \in Handlers, NEW token, Send(r, h, token)
        PROVE  WebInv'
    BY <2>1, <2>2, <2>4, SendStep DEF Send, server
  <2>5. ASSUME NEW r \in Slots, Malformed(r) \/ \E h \in Handlers : Ask(r, h)
        PROVE  WebInv'
    BY <2>1, <2>3, <2>5, AskStep DEF Malformed, Ask
  <2>6. ASSUME NEW r \in Slots, RefuseRole(r) \/ RefuseToken(r)
        PROVE  WebInv'
    BY <2>1, <2>3, <2>6, RefuseStep DEF RefuseRole, RefuseToken
  <2>7. ASSUME NEW r \in Slots, Read(r)
        PROVE  WebInv'
    BY <2>1, <2>3, <2>7, ReadStep DEF Read
  <2>8. ASSUME NEW r \in Slots, Authenticate(r)
        PROVE  WebInv'
    BY <2>1, <2>3, <2>8, AuthenticateStep DEF Authenticate
  <2>9. ASSUME NEW r \in Slots, Write(r)
        PROVE  WebInv'
    <3>1. UNCHANGED <<jar, forms, audit>> /\ done \subseteq done'
      BY <2>9 DEF Write, server, Commit
    <3> QED BY <2>1, <2>2, <2>9, <3>1, WriteStep
  <2>10. ASSUME NEW r \in Slots, Receive(r)
         PROVE  WebInv'
    BY <2>10, ReceiveStep
  <2>11. ASSUME NEW r \in Slots, GiveUp(r)
         PROVE  WebInv'
    BY <2>1, <2>3, <2>11, GiveUpStep DEF GiveUp
  <2>12. CASE FlashExpires
    <3>1. jar' = [jar EXCEPT !.flash = None] /\ owed' = None
          /\ UNCHANGED <<forms, req, role, sent, done, chosen, late>>
      BY <2>12 DEF FlashExpires
    <3>2. jar' \in Cookies /\ jar'.flash = None /\ jar'.csrf = jar.csrf /\ jar'.lang = jar.lang
      BY <2>1, <3>1 DEF StateOK, Cookies, None
    <3>3. StateOK'
      BY <2>1, <3>1, <3>2 DEF StateOK, None
    <3>4. RequestsOK'
      BY <2>1, <3>1 DEF RequestsOK
    <3> QED BY <2>1, <3>1, <3>2, <3>3, <3>4
            DEF WebInv, JarFits, FormsAccepted, MessagesFit, LanguageKept
  <2>13. ASSUME NEW new \in Roles, SetRole(new)
         PROVE  WebInv'
    BY <2>1, <2>2, <2>13, SetRoleStep DEF SetRole
  <2>14. CASE UNCHANGED webVars
    <3>1. UNCHANGED <<server, sent, done, req>>
      BY <2>14 DEF webVars, server, audit
    <3>2. RequestsOK'
      BY <2>1, <3>1 DEF RequestsOK, server
    <3> QED BY <2>3, <3>1, <3>2
  <2> QED BY <2>4, <2>5, <2>6, <2>7, <2>8, <2>9, <2>10, <2>11, <2>12, <2>13, <2>14 DEF WebNext
<1> QED BY <1>1, <1>2, PTL DEF WebSpec

(* Every variable has its type, whatever the browser sends and gives up:    *)
(* messages number requests sent (set_flash), tokens are never none.        *)
THEOREM WebTyping == WebSpec => []WebTypeOK
<1>1. WebInv => WebTypeOK
  <2> SUFFICES ASSUME WebInv
               PROVE  WebTypeOK
    OBVIOUS
  <2>1. done \subseteq 1..sent /\ sent \in Nat
    BY DEF WebInv, StateOK
  <2>2. jar.flash \in 0..sent
    <3>1. done \subseteq 0..sent /\ 0 \in 0..sent
      BY <2>1
    <3> QED BY <3>1 DEF WebInv, MessagesFit, None
  <2>3. jar \in [csrf : Tokens \union {None}, flash : 0..sent, lang : Langs \union {None}]
    BY <2>2 DEF WebInv, StateOK, Cookies
  <2>4. \A r \in Slots : req[r].pc \in {"free", "waiting", "admitted", "answered"}
    BY DEF WebInv, RequestsOK, RequestOK, NoRequest, Pending, PendingRecord, Answered
  <2> QED BY <2>3, <2>4 DEF WebInv, StateOK, WebTypeOK
<1> QED BY <1>1, WebInvariant, PTL

(* A form in an open page can be sent, unless first visits overlapped       *)
(* (current_or_new_csrf), for any number of tabs.                           *)
THEOREM FormsStayAccepted == WebSpec => []FormsAccepted
<1>1. WebInv => FormsAccepted
  BY DEF WebInv
<1> QED BY <1>1, WebInvariant, PTL

(* A message of success is about a committed change and is shown once       *)
(* (render_page, flash_clear_cookie), unless an older page cleared it.      *)
THEOREM MessagesStayFit == WebSpec => []MessagesFit
<1>1. WebInv => MessagesFit
  BY DEF WebInv
<1> QED BY <1>1, WebInvariant, PTL

(* The language stays the one last chosen (refresh_lang_cookie), unless an  *)
(* older page arrives after the choice.                                     *)
THEOREM LanguageStays == WebSpec => []LanguageKept
<1>1. WebInv => LanguageKept
  BY DEF WebInv
<1> QED BY <1>1, WebInvariant, PTL

(* No route of the router commits a change unless its sender was an admin   *)
(* since it was sent and its token was that of its cookies                  *)
(* (admin_blocking, check_form_csrf, check_csrf).                           *)
THEOREM WritesAreJustified == WebSpec => WritesJustified
<1> DEFINE Justified ==
      \A n \in done' \ done : \E r \in Slots :
        /\ req[r].pc = "admitted"
        /\ req[r].number = n
        /\ req[r].wasAdmin
        /\ TokenFits(r)
<1>1. WebInv /\ [WebNext]_webVars => [Justified]_webVars
  <2> SUFFICES ASSUME WebInv, WebNext, NEW n \in done' \ done
               PROVE  \E r \in Slots : /\ req[r].pc = "admitted"
                                       /\ req[r].number = n
                                       /\ req[r].wasAdmin
                                       /\ TokenFits(r)
    OBVIOUS
  <2>1. ASSUME NEW r \in Slots, Write(r)
        PROVE  req[r].pc = "admitted" /\ req[r].number = n /\ req[r].wasAdmin /\ TokenFits(r)
    <3>1. req[r].pc = "admitted" /\ MayCall(r) /\ (Commit(r) \/ done' = done)
      BY <2>1 DEF Write
    <3>2. req[r].number = n
      BY <3>1 DEF Commit
    <3> QED BY <3>1, <3>2, Admitted DEF WebInv
  <2>2. ASSUME done' = done
        PROVE  FALSE
    BY <2>2
  <2> QED BY <2>1, <2>2, Zenon DEF WebNext, Send, Ask, Malformed, RefuseRole, Read, Authenticate,
             RefuseToken, Receive, GiveUp, FlashExpires, SetRole
<1> QED BY <1>1, WebInvariant, PTL DEF WebSpec, WritesJustified

----------------------------------------------------------------------------
(* One request at a time.                                                   *)

Alone == \A r, s \in Slots : req[r] # NoRequest /\ req[s] # NoRequest => r = s

UpToDate == late \subseteq {"flash"}

(* What a request brought, and what its answer is derived from, is what the *)
(* browser has, but for a message that expired since.                       *)
Current(q) ==
  /\ q.pc \in {"waiting", "admitted"} => q.cookies.csrf = jar.csrf /\ q.cookies.lang = jar.lang
  /\ q.pc = "answered" => \A k \in DOMAIN q.seen \ {"flash"} : q.seen[k] = jar[k]

AloneInv == UpToDate /\ \A r \in Slots : Current(req[r])

LEMMA ReplyCurrent ==
  ASSUME jar \in Cookies, NEW cookies, cookies.csrf = jar.csrf, cookies.lang = jar.lang,
         IsFiniteSet(forms), NEW result, NEW fresh,
         cookies \in Cookies
  PROVE  Current(Reply(result, fresh, cookies))
<1> DEFINE d == Derived(result, cookies)
           q == Reply(result, fresh, cookies)
<1>1. q.pc = "answered" /\ DOMAIN q.seen = DOMAIN d /\ \A k \in DOMAIN d : q.seen[k] = cookies[k]
  BY DEF Reply
<1>2. csrf_token \in Tokens
  BY TokenExists
<1> HIDE DEF d, q
<1>3. DOMAIN d \subseteq {"csrf", "flash", "lang"}
  BY <1>2, DerivedParts DEF d
<1>4. Current(q)
  BY <1>1, <1>3 DEF Current, Cookies
<1> QED BY <1>4 DEF q

(* Steps of a request that leave the browser alone.                         *)
LEMMA CurrentStep ==
  ASSUME AloneInv, StateOK, RequestsOK, NEW r \in Slots, UNCHANGED server,
         NEW q, req' = [req EXCEPT ![r] = q], Current(q)
  PROVE  AloneInv'
<1>1. UNCHANGED <<jar, late>>
  BY DEF server, audit
<1>2. ASSUME NEW s \in Slots
      PROVE  Current(req'[s])
  <2>1. req'[s] = IF s = r THEN q ELSE req[s]
    BY DEF RequestsOK
  <2>2. Current(req[s])
    BY DEF AloneInv
  <2> QED BY <2>1, <2>2
<1> QED BY <1>1, <1>2 DEF AloneInv, UpToDate, Current

LEMMA AnswerCurrent ==
  ASSUME AloneInv, StateOK, RequestsOK, NEW r \in Slots, Pending(req[r], role, sent),
         UNCHANGED server, NEW result, Answer(r, result)
  PROVE  AloneInv'
<1> DEFINE fresh == IF result = "redirect" THEN Cookie("flash", req[r].number) ELSE <<>>
           q == Reply(result, fresh, req[r].cookies)
<1>1. /\ req[r].cookies \in Cookies /\ jar \in Cookies /\ IsFiniteSet(forms)
      /\ req[r].pc \in {"waiting", "admitted"}
  BY DEF Pending, PendingRecord, StateOK
<1>2. req[r].cookies.csrf = jar.csrf /\ req[r].cookies.lang = jar.lang
  BY <1>1 DEF AloneInv, Current
<1>3. Current(q)
  <2> HIDE DEF fresh
  <2> QED BY <1>1, <1>2, ReplyCurrent
<1>4. Current(NoRequest)
  BY DEF Current, NoRequest
<1>5. req' = [req EXCEPT ![r] = NoRequest] \/ req' = [req EXCEPT ![r] = q]
  BY DEF Answer, Emit
<1> HIDE DEF q
<1> QED BY <1>3, <1>4, <1>5, CurrentStep

LEMMA RunCurrent ==
  ASSUME AloneInv, StateOK, RequestsOK, NEW r \in Slots, Pending(req[r], role, sent),
         UNCHANGED server, NEW tasks, NEW again, NEW ok, Run(r, tasks, again, ok)
  PROVE  AloneInv'
<1> DEFINE q == [req[r] EXCEPT !.pc = "waiting", !.tasks = tasks, !.again = again, !.ok = ok]
<1>1. req[r] \in PendingRecord /\ Current(req[r])
  BY DEF Pending, AloneInv
<1>2. q.pc = "waiting" /\ q.cookies = req[r].cookies /\ req[r].pc \in {"waiting", "admitted"}
  BY <1>1 DEF PendingRecord
<1>3. req' = [req EXCEPT ![r] = q]
  BY DEF Run, RequestsOK
<1> HIDE DEF q
<1>4. Current(q)
  BY <1>1, <1>2 DEF Current
<1> QED BY <1>3, <1>4, CurrentStep

(* The steps of the server.                                                 *)
LEMMA ServerCurrent ==
  ASSUME AloneInv, StateOK, RequestsOK, NEW r \in Slots,
         RefuseRole(r) \/ Read(r) \/ Authenticate(r) \/ RefuseToken(r) \/ Write(r)
  PROVE  AloneInv'
<1>1. UNCHANGED server
  BY DEF RefuseRole, Read, Authenticate, RefuseToken, Write
<1>2. Pending(req[r], role, sent)
  BY DEF RequestsOK, RequestOK, NoRequest, Answered, RefuseRole, Read, Authenticate,
         RefuseToken, Write
<1>3. ASSUME NEW result, Answer(r, result)
      PROVE  AloneInv'
  BY <1>1, <1>2, <1>3, AnswerCurrent
<1>4. ASSUME NEW tasks, NEW again, NEW ok, Run(r, tasks, again, ok)
      PROVE  AloneInv'
  BY <1>1, <1>2, <1>4, RunCurrent
<1>5. CASE Fail(r)
  BY <1>3, <1>5 DEF Fail
<1>6. CASE NextTask(r)
  BY <1>3, <1>4, <1>6 DEF NextTask
<1>7. CASE RenderAgain(r)
  BY <1>4, <1>5, <1>7 DEF RenderAgain
<1>8. CASE Authenticate(r)
  <2> DEFINE q == [req[r] EXCEPT !.pc = "admitted"]
  <2>1. req[r] \in PendingRecord /\ Current(req[r])
    BY <1>2 DEF Pending, AloneInv
  <2>2. q.pc = "admitted" /\ q.cookies = req[r].cookies /\ req[r].pc \in {"waiting", "admitted"}
    BY <2>1 DEF PendingRecord
  <2>3. req' = [req EXCEPT ![r] = q]
    BY <1>8 DEF Authenticate, RequestsOK
  <2> HIDE DEF q
  <2>4. Current(q)
    BY <2>1, <2>2 DEF Current
  <2> QED BY <1>1, <2>3, <2>4, CurrentStep
<1> QED BY <1>5, <1>6, <1>7, <1>8 DEF RefuseRole, Read, RefuseToken, Write

(* The browser sends what it has.                                           *)
LEMMA SendCurrent ==
  ASSUME AloneInv, StateOK, RequestsOK, NEW r \in Slots,
         \/ Malformed(r)
         \/ \E h \in Handlers : Ask(r, h) \/ \E token \in forms \union {None} : Send(r, h, token)
  PROVE  AloneInv'
<1>1. UNCHANGED server
  BY DEF Malformed, Ask, Send
<1>2. jar \in Cookies /\ IsFiniteSet(forms)
  BY DEF StateOK
<1>3. ASSUME NEW result, NEW fresh, Emit(r, Reply(result, fresh, jar))
      PROVE  AloneInv'
  <2>1. Current(Reply(result, fresh, jar))
    BY <1>2, ReplyCurrent
  <2>2. req' = [req EXCEPT ![r] = Reply(result, fresh, jar)]
    BY <1>3 DEF Emit
  <2> QED BY <1>1, <2>1, <2>2, CurrentStep
<1>4. CASE Malformed(r) \/ \E h \in Handlers : Ask(r, h)
  BY <1>3, <1>4 DEF Malformed, Ask
<1>5. ASSUME NEW h \in Handlers, NEW token, Send(r, h, token)
      PROVE  AloneInv'
  <2> DEFINE q ==
        [pc |-> "waiting", tasks |-> h.tasks, again |-> h.again, ok |-> h.ok, api |-> h.api,
         cookies |-> jar, token |-> token, number |-> IF Writes(h) THEN sent + 1 ELSE None,
         gone |-> FALSE, wasAdmin |-> Writes(h) /\ role = "admin"]
  <2>1. /\ req' = [req EXCEPT ![r] = q]
        /\ q.pc = "waiting" /\ q.cookies = jar
    BY <1>5 DEF Send
  <2> HIDE DEF q
  <2>2. Current(q)
    BY <2>1 DEF Current
  <2> QED BY <1>1, <2>1, <2>2, CurrentStep
<1> QED BY <1>4, <1>5

(* Nothing is in flight but the answer that arrives.                        *)
LEMMA ReceiveCurrent ==
  ASSUME AloneInv, WebInv, Alone, NEW r \in Slots, Receive(r)
  PROVE  AloneInv'
<1> DEFINE q == req[r]
<1>1. Answered(q, done) /\ q.pc = "answered"
  BY DEF WebInv, RequestsOK, RequestOK, Receive, NoRequest, Pending, PendingRecord
<1>2. late' = (late \cup {k \in DOMAIN q.seen : q.seen[k] # jar[k]}) \ DOMAIN q.fresh
  BY DEF Receive, Late
<1>3. \A k \in DOMAIN q.seen \ {"flash"} : q.seen[k] = jar[k]
  BY <1>1 DEF AloneInv, Current
<1>4. late' \subseteq {"flash"}
  BY <1>2, <1>3 DEF AloneInv, UpToDate
<1>5. ASSUME NEW s \in Slots
      PROVE  req'[s] = NoRequest
  <2>1. req' = [req EXCEPT ![r] = NoRequest] /\ DOMAIN req = Slots
    BY DEF Receive, WebInv, RequestsOK
  <2>2. q # NoRequest
    BY <1>1 DEF NoRequest
  <2> QED BY <2>1, <2>2 DEF Alone
<1> QED BY <1>4, <1>5 DEF AloneInv, UpToDate, Current, NoRequest

(* What the pages and the language lose, they lose to requests that overlap *)
(* (see current_or_new_csrf and refresh_lang_cookie): while a browser waits *)
(* for every answer before it sends, each form in an open page can be sent, *)
(* and the language is the one last chosen.                                 *)
THEOREM OnlyOverlapsLose ==
  WebSpec /\ []Alone => [](/\ \A token \in forms : token = jar.csrf
                           /\ jar.lang = chosen)
<1> DEFINE Kept == (\A token \in forms : token = jar.csrf) /\ jar.lang = chosen
<1>1. WebInit => AloneInv
  BY DEF WebInit, AloneInv, UpToDate, Current, NoRequest
<1>2. AloneInv /\ WebInv /\ Alone /\ [WebNext]_webVars => AloneInv'
  <2> SUFFICES ASSUME AloneInv, WebInv, Alone, [WebNext]_webVars
               PROVE  AloneInv'
    OBVIOUS
  <2>1. StateOK /\ RequestsOK
    BY DEF WebInv
  <2>2. ASSUME NEW r \in Slots, GiveUp(r)
        PROVE  AloneInv'
    <3> DEFINE q == [req[r] EXCEPT !.gone = TRUE]
    <3>1. Current(NoRequest) /\ Current(req[r]) /\ UNCHANGED server
      BY <2>2 DEF Current, NoRequest, AloneInv, GiveUp
    <3>2. CASE req' = [req EXCEPT ![r] = NoRequest]
      BY <2>1, <3>1, <3>2, CurrentStep
    <3>3. CASE req[r].pc \in {"waiting", "admitted"} /\ req' = [req EXCEPT ![r].gone = TRUE]
      <4>1. req[r] \in PendingRecord
        BY <2>1, <3>3 DEF RequestsOK, RequestOK, NoRequest, Answered, Pending
      <4>2. q.pc = req[r].pc /\ q.cookies = req[r].cookies
        BY <4>1 DEF PendingRecord
      <4>3. req' = [req EXCEPT ![r] = q]
        BY <2>1, <3>3 DEF RequestsOK
      <4> HIDE DEF q
      <4>4. Current(q)
        BY <3>1, <3>3, <4>2 DEF Current
      <4> QED BY <2>1, <3>1, <4>3, <4>4, CurrentStep
    <3> QED BY <2>2, <3>2, <3>3 DEF GiveUp
  <2>3. CASE FlashExpires
    <3>1. jar' = [jar EXCEPT !.flash = None] /\ UNCHANGED <<req, late>> /\ jar \in Cookies
      BY <2>1, <2>3 DEF FlashExpires, StateOK
    <3>2. jar'.csrf = jar.csrf /\ jar'.lang = jar.lang /\ \A k \in DOMAIN jar \ {"flash"} : jar'[k] = jar[k]
      BY <3>1 DEF Cookies
    <3>3. ASSUME NEW r \in Slots, req[r].pc = "answered", NEW k \in DOMAIN req[r].seen \ {"flash"}
          PROVE  jar'[k] = jar[k]
      <4>1. k \in DOMAIN jar
        BY <2>1, <3>1, <3>3
           DEF RequestsOK, RequestOK, NoRequest, Pending, PendingRecord, Answered, Cookies
      <4> QED BY <3>2, <4>1
    <3> QED BY <3>1, <3>2, <3>3 DEF AloneInv, UpToDate, Current
  <2>4. ASSUME NEW new \in Roles, SetRole(new)
        PROVE  AloneInv'
    <3>1. UNCHANGED <<jar, late>>
      BY <2>4 DEF SetRole, audit
    <3>2. ASSUME NEW r \in Slots
          PROVE  Current(req'[r])
      <4>1. Current(req[r])
        BY DEF AloneInv
      <4>2. CASE req'[r] = req[r]
        BY <4>1, <4>2
      <4>3. CASE req'[r] # req[r]
        <5>1. /\ req[r].pc \in {"waiting", "admitted"}
              /\ req'[r] = [req[r] EXCEPT !.wasAdmin = @ \/ new = "admin"]
          BY <2>4, <4>3 DEF SetRole
        <5>2. req[r] \in PendingRecord
          BY <2>1, <5>1 DEF RequestsOK, RequestOK, NoRequest, Answered, Pending
        <5>3. req'[r].pc = req[r].pc /\ req'[r].cookies = req[r].cookies
          BY <5>1, <5>2 DEF PendingRecord
        <5> QED BY <4>1, <5>1, <5>3 DEF Current
      <4> QED BY <4>2, <4>3
    <3> QED BY <3>1, <3>2 DEF AloneInv, UpToDate, Current
  <2>5. CASE UNCHANGED webVars
    BY <2>5 DEF webVars, audit, AloneInv, UpToDate, Current
  <2>6. ASSUME NEW r \in Slots,
               RefuseRole(r) \/ Read(r) \/ Authenticate(r) \/ RefuseToken(r) \/ Write(r)
        PROVE  AloneInv'
    BY <2>1, <2>6, ServerCurrent
  <2>7. ASSUME NEW r \in Slots,
               \/ Malformed(r)
               \/ \E h \in Handlers :
                    Ask(r, h) \/ \E token \in forms \union {None} : Send(r, h, token)
        PROVE  AloneInv'
    BY <2>1, <2>7, SendCurrent
  <2>8. ASSUME NEW r \in Slots, Receive(r)
        PROVE  AloneInv'
    BY <2>8, ReceiveCurrent
  <2> QED BY <2>2, <2>3, <2>4, <2>5, <2>6, <2>7, <2>8 DEF WebNext
<1>3. AloneInv /\ WebInv => Kept
  BY DEF AloneInv, UpToDate, WebInv, FormsAccepted, LanguageKept
<1> QED BY <1>1, <1>2, <1>3, WebInvariant, PTL DEF WebSpec

----------------------------------------------------------------------------
(* Templates.                                                               *)
TableOK == templates \subseteq Template /\ NamesUnique /\ OneDefault

TemplatesInv == TypeOK /\ TableOK

LEMMA DraftIsNone == \A t \in Template : t # NoDraft
<1> SUFFICES ASSUME NEW t \in Template, t = NoDraft PROVE FALSE
  OBVIOUS
<1>1. "scope" \in DOMAIN t
  BY DEF Template
<1>2. "scope" \notin DOMAIN NoDraft
  BY DEF NoDraft
<1> QED BY <1>1, <1>2

(* What a save of t leaves of another template: all but its flag.           *)
Rest(old, t) ==
  IF t.default /\ old.id # t.id /\ Overlap(old.scope, t.scope)
  THEN [old EXCEPT !.default = FALSE] ELSE old

(* A row that a save left alone or took the flag from.                      *)
LEMMA RestKeeps ==
  ASSUME NEW t \in Template, NEW old \in Template
  PROVE  /\ Rest(old, t) \in Template
         /\ Rest(old, t).id = old.id
         /\ Rest(old, t).name = old.name
         /\ Rest(old, t).scope = old.scope
         /\ Rest(old, t).default => old.default
         /\ (t.default /\ old.id # t.id /\ Overlap(old.scope, t.scope)) =>
              ~Rest(old, t).default
BY DEF Rest, Template

(* The rows after a save: the saved one, and what it left of the others.    *)
LEMMA SavedRows ==
  ASSUME NEW r \in Requests, TableOK, draft[r] \in Template, Store(r)
  PROVE  \A u \in templates' :
           \/ u = draft[r]
           \/ \E old \in templates : old.id # draft[r].id /\ u = Rest(old, draft[r])
<1>1. Cleared(draft[r]) = {Rest(old, draft[r]) : old \in templates}
  BY DEF Cleared, Rest
<1>2. \A old \in templates : Rest(old, draft[r]).id = old.id
  BY RestKeeps DEF TableOK
<1> QED BY <1>1, <1>2 DEF Store

(* Saving a template whose name is free keeps the table in order.           *)
LEMMA StoreKeeps ==
  ASSUME NEW r \in Requests, TemplatesInv, draft[r] \in Template,
         ~Taken(draft[r]), Store(r)
  PROVE  TableOK'
<1> DEFINE t == draft[r]
<1>1. \A u \in templates' :
        u = t \/ \E old \in templates : old.id # t.id /\ u = Rest(old, t)
  BY SavedRows DEF TemplatesInv
<1>2. templates' \subseteq Template
  BY <1>1, RestKeeps DEF TemplatesInv, TableOK
<1>3. ASSUME NEW a \in templates', NEW b \in templates', a.id = b.id \/ a.name = b.name
      PROVE  a = b
  <2>1. CASE a = t /\ b = t
    BY <2>1
  <2>2. CASE a = t /\ b # t
    BY <1>1, <1>3, <2>2, RestKeeps DEF TemplatesInv, TableOK, Taken
  <2>3. CASE a # t /\ b = t
    BY <1>1, <1>3, <2>3, RestKeeps DEF TemplatesInv, TableOK, Taken
  <2>4. CASE a # t /\ b # t
    <3>1. PICK x \in templates : x.id # t.id /\ a = Rest(x, t)
      BY <1>1, <2>4
    <3>2. PICK y \in templates : y.id # t.id /\ b = Rest(y, t)
      BY <1>1, <2>4
    <3>3. x.id = y.id \/ x.name = y.name
      BY <1>3, <3>1, <3>2, RestKeeps DEF TemplatesInv, TableOK
    <3>4. x = y
      BY <3>3 DEF TemplatesInv, TableOK, NamesUnique, NamesDiffer
    <3> QED BY <3>1, <3>2, <3>4
  <2> QED BY <2>1, <2>2, <2>3, <2>4
<1>4. ASSUME NEW a \in templates', NEW b \in templates',
             a.default, b.default, Overlap(a.scope, b.scope)
      PROVE  a = b
  <2>1. \A old \in templates :
          (old.id # t.id /\ Rest(old, t).default /\ t.default) =>
            ~Overlap(Rest(old, t).scope, t.scope)
    BY RestKeeps DEF TemplatesInv, TableOK
  <2>2. CASE a = t \/ b = t
    BY <1>1, <1>4, <2>1, <2>2 DEF Overlap
  <2>3. CASE a # t /\ b # t
    <3>1. PICK x \in templates : x.id # t.id /\ a = Rest(x, t)
      BY <1>1, <2>3
    <3>2. PICK y \in templates : y.id # t.id /\ b = Rest(y, t)
      BY <1>1, <2>3
    <3>3. x.default /\ y.default /\ Overlap(x.scope, y.scope)
      BY <1>4, <3>1, <3>2, RestKeeps DEF TemplatesInv, TableOK
    <3>4. x = y
      BY <3>3 DEF TemplatesInv, TableOK, OneDefault, OneDefaultIn
    <3> QED BY <3>1, <3>2, <3>4
  <2> QED BY <2>2, <2>3
<1> QED BY <1>2, <1>3, <1>4 DEF TableOK, NamesUnique, NamesDiffer, OneDefault, OneDefaultIn

(* Removing rows keeps it in order too.                                     *)
LEMMA FewerKeeps ==
  ASSUME TableOK, templates' \subseteq templates
  PROVE  TableOK'
BY DEF TableOK, NamesUnique, NamesDiffer, OneDefault, OneDefaultIn

LEMMA TemplatesInit == Init => TemplatesInv
BY DEF Init, TemplatesInv, TypeOK, TableOK, NamesUnique, NamesDiffer, OneDefault, OneDefaultIn

(* The types of a request whose draft or pc one step replaces.              *)
LEMMA RequestTyped ==
  ASSUME TypeOK, NEW r \in Requests, NEW p, NEW d, TableOK',
         p \in {"idle", "creating", "updating", "inserting", "replacing"},
         d \in Template \union {NoDraft}, p = "idle" <=> d = NoDraft,
         pc' = [pc EXCEPT ![r] = p], draft' = [draft EXCEPT ![r] = d]
  PROVE  TypeOK'
BY DEF TypeOK, TableOK

LEMMA TemplatesStep == TemplatesInv /\ [Next]_vars => TemplatesInv'
<1> SUFFICES ASSUME TemplatesInv, [Next]_vars PROVE TemplatesInv'
  OBVIOUS
<1> USE DEF TemplatesInv
<1>1. ASSUME UNCHANGED templates PROVE TableOK'
  BY <1>1 DEF TableOK, NamesUnique, NamesDiffer, OneDefault, OneDefaultIn
<1>2. ASSUME NEW r \in Requests, pc[r] # "idle" PROVE draft[r] \in Template
  BY <1>2 DEF TypeOK
<1>4. ASSUME NEW r \in Requests, End(r), TableOK' PROVE TypeOK'
  BY <1>4, RequestTyped DEF End, Goto
<1>5. ASSUME NEW r \in Requests, BeginCreate(r) \/ BeginUpdate(r) PROVE TemplatesInv'
  <2>1. PICK t \in Template, p \in {"creating", "updating"} :
          draft' = [draft EXCEPT ![r] = t] /\ pc' = [pc EXCEPT ![r] = p]
    BY <1>5 DEF BeginCreate, BeginUpdate, Goto
  <2>2. TableOK'
    BY <1>1, <1>5 DEF BeginCreate, BeginUpdate
  <2> QED BY <2>1, <2>2, RequestTyped, DraftIsNone
<1>6. ASSUME NEW r \in Requests, CheckName(r) PROVE TemplatesInv'
  <2>1. PICK p \in {"inserting", "replacing"} : pc' = [pc EXCEPT ![r] = p]
    BY <1>6 DEF CheckName, Goto
  <2>2. draft' = [draft EXCEPT ![r] = draft[r]]
    BY <1>6 DEF CheckName, TypeOK
  <2>3. TableOK'
    BY <1>1, <1>6 DEF CheckName
  <2>4. draft[r] \in Template
    BY <1>2, <1>6 DEF CheckName
  <2> QED BY <2>1, <2>2, <2>3, <2>4, RequestTyped, DraftIsNone
<1>7. ASSUME NEW r \in Requests, SaveNew(r) \/ Replace(r) PROVE TemplatesInv'
  <2>1. draft[r] \in Template
    BY <1>2, <1>7 DEF SaveNew, Replace
  <2>2. TableOK'
    BY <1>7, <2>1, StoreKeeps DEF SaveNew, Replace
  <2> QED BY <1>4, <1>7, <2>2 DEF SaveNew, Replace, Store
<1>8. ASSUME NEW r \in Requests, Refuse(r) \/ RefuseGone(r) PROVE TemplatesInv'
  <2>1. TableOK'
    BY <1>1, <1>8 DEF Refuse, RefuseGone
  <2> QED BY <1>4, <1>8, <2>1 DEF Refuse, RefuseGone
<1>9. ASSUME TableOK', UNCHANGED <<pc, draft>> PROVE TemplatesInv'
  BY <1>9 DEF TypeOK, TableOK
<1>10. ASSUME NEW t \in templates, Delete(t) PROVE TemplatesInv'
  BY <1>9, <1>10, FewerKeeps DEF Delete
<1>11. ASSUME NukeAll PROVE TemplatesInv'
  BY <1>9, <1>11, FewerKeeps DEF NukeAll
<1>12. ASSUME RestoreBackup PROVE TemplatesInv'
  <2>1. TableOK'
    BY <1>12, BackupsAssumption DEF RestoreBackup, TableOK, NamesUnique, OneDefault,
       NamesDiffer, OneDefaultIn
  <2> QED BY <1>9, <1>12, <2>1 DEF RestoreBackup
<1>13. ASSUME UNCHANGED vars PROVE TemplatesInv'
  BY <1>1, <1>9, <1>13 DEF vars
<1> QED BY <1>5, <1>6, <1>7, <1>8, <1>10, <1>11, <1>12, <1>13 DEF Next

(* The inductive invariant: types, unique names, one default for each form  *)
(* (save_template's transaction).                                           *)
THEOREM TemplatesInvariance == Spec => []TemplatesInv
BY TemplatesInit, TemplatesStep, PTL DEF Spec

(* Every variable has its type in all behaviours; an idle request has no    *)
(* draft.                                                                   *)
THEOREM TemplatesTyping == Spec => []TypeOK
<1>1. TemplatesInv => TypeOK
  BY DEF TemplatesInv
<1> QED BY <1>1, TemplatesInvariance, PTL

(* Each form has at most one default, whatever requests save at once.       *)
THEOREM Defaults == Spec => []OneDefault
<1>1. TemplatesInv => OneDefault
  BY DEF TemplatesInv, TableOK
<1> QED BY <1>1, TemplatesInvariance, PTL

(* No two templates have one name, although a request looks before it saves. *)
THEOREM UniqueTemplateNames == Spec => []NamesUnique
<1>1. TemplatesInv => NamesUnique
  BY DEF TemplatesInv, TableOK
<1> QED BY <1>1, TemplatesInvariance, PTL

(* A row found again with its id is the same row, or what a save left of it. *)
LEMMA SaveHandsOver ==
  ASSUME NEW r \in Requests, TemplatesInv, draft[r] \in Template, Store(r),
         NEW t \in templates, NEW u \in templates',
         t.id = u.id, t.default, ~u.default, u # draft[r]
  PROVE  \E new \in templates' :
           new.id # u.id /\ new.default /\ Overlap(new.scope, u.scope)
<1>1. PICK old \in templates : old.id # draft[r].id /\ u = Rest(old, draft[r])
  BY SavedRows DEF TemplatesInv
<1>2. old = t
  BY <1>1, RestKeeps DEF TemplatesInv, TableOK, NamesUnique, NamesDiffer
<1>3. draft[r].default /\ draft[r].id # u.id /\ Overlap(draft[r].scope, u.scope)
  <2>1. u # t
    OBVIOUS
  <2>2. draft[r].default /\ Overlap(t.scope, draft[r].scope)
    BY <1>1, <1>2, <2>1 DEF Rest
  <2>3. u.id = t.id /\ u.scope = t.scope
    BY <1>1, <1>2, RestKeeps DEF TemplatesInv, TableOK
  <2> QED BY <1>1, <1>2, <2>2, <2>3 DEF Overlap
<1>4. draft[r] \in templates'
  BY DEF Store
<1> QED BY <1>3, <1>4

(* A template loses the flag of a form only to another default, by its own  *)
(* update, or by going itself: save_template rolls back when it fails.      *)
THEOREM HandedOver == Spec => DefaultHandedOver
<1> DEFINE Loses ==
      \A t \in templates : \A u \in templates' :
        (t.id = u.id /\ t.default /\ ~u.default) =>
          \/ \E new \in templates' :
               new.id # u.id /\ new.default /\ Overlap(new.scope, u.scope)
          \/ \E r \in Requests : pc[r] = "replacing" /\ draft[r] = u
<1>1. ASSUME TemplatesInv, [Next]_vars PROVE Loses
  <2> USE <1>1
  <2>1. CASE templates' \subseteq templates
    BY <2>1 DEF TemplatesInv, TableOK, NamesUnique, NamesDiffer
  <2>2. ASSUME NEW r \in Requests, SaveNew(r) PROVE Loses
    <3>1. draft[r] \in Template
      BY <2>2 DEF SaveNew, TemplatesInv, TypeOK
    <3>2. \A t \in templates : t.id # draft[r].id
      BY <2>2 DEF SaveNew, Exists
    <3> QED BY <2>2, <3>1, <3>2, SaveHandsOver DEF SaveNew
  <2>3. ASSUME NEW r \in Requests, Replace(r) PROVE Loses
    <3>1. draft[r] \in Template
      BY <2>3 DEF Replace, TemplatesInv, TypeOK
    <3> QED BY <2>3, <3>1, SaveHandsOver DEF Replace
  <2>4. CASE RestoreBackup
    BY <2>4 DEF RestoreBackup
  <2>5. ASSUME NEW r \in Requests,
               \/ BeginCreate(r) \/ BeginUpdate(r) \/ CheckName(r)
               \/ RefuseGone(r) \/ Refuse(r)
        PROVE  templates' \subseteq templates
    BY <2>5 DEF BeginCreate, BeginUpdate, CheckName, RefuseGone, Refuse
  <2>6. ASSUME NEW t \in templates, Delete(t) PROVE templates' \subseteq templates
    BY <2>6 DEF Delete
  <2>7. CASE NukeAll \/ UNCHANGED vars
    BY <2>1, <2>7 DEF NukeAll, vars
  <2> QED BY <2>1, <2>2, <2>3, <2>4, <2>5, <2>6, <2>7 DEF Next
<1>2. TemplatesInv /\ [Next]_vars => [Loses]_vars
  BY <1>1
<1>3. Spec => [][Loses]_vars
  BY <1>2, TemplatesInvariance, PTL DEF Spec
<1> QED BY <1>3 DEF DefaultHandedOver
=============================================================================
