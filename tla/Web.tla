-------------------------------- MODULE Web --------------------------------
(***************************************************************************)
(* The HTTP layer (web.rs): one browser, whose tabs share a cookie jar,    *)
(* sends requests that overlap in the server and on the network.  A        *)
(* request carries the cookies of the moment it was sent; its answer sets  *)
(* cookies computed from those.  Meanwhile another admin changes the role  *)
(* of the account, and the browser gives requests up.                      *)
(*                                                                         *)
(* Authentication is one step, at its lookup (Login shows that it is); a   *)
(* call of the service may write and fail afterwards, or panic.  A page    *)
(* has forms for all handlers.  Clients that bring a token of their own,   *)
(* as the command line does, need no jar and are left out.                 *)
(***************************************************************************)
EXTENDS Routes, Naturals, FiniteSets

CONSTANTS
  Slots,      \* slots for requests in flight
  Langs,      \* languages
  Handlers,   \* those the browser uses
  MaxWrites   \* bound: requests sent that change something

ASSUME HandlersAssumption == Handlers \subseteq router

ASSUME SlotsAssumption == IsFiniteSet(Slots)

VARIABLES
  jar,      \* the cookies minica_csrf, minica_flash, minica_lang
  forms,    \* the tokens in the pages that are open
  req,      \* requests in flight
  role,     \* of the account
  \* audit variables
  sent,     \* requests sent that change something, numbered
  done,     \* those whose change was committed
  owed,     \* the message set last, if neither shown nor expired, unless late
  chosen,   \* the language last chosen, unless late
  late      \* cookies set from older ones, see Late

webVars == <<jar, forms, req, role, sent, done, owed, chosen, late>>

audit == <<owed, chosen, late>>

None == 0

Tokens == Nat \ {None}

Roles == {"admin", "viewer", "nobody"}

NoRequest == [pc |-> "free"]

WebInit ==
  /\ jar = [csrf |-> None, flash |-> None, lang |-> None]
  /\ forms = {}
  /\ req = [r \in Slots |-> NoRequest]
  /\ role \in Roles
  /\ sent = 0
  /\ done = {}
  /\ owed = None
  /\ chosen = None
  /\ late = {}

----------------------------------------------------------------------------
(* Cookies that are set, as functions of their names.                       *)
Cookie(name, value) == [k \in {name} |-> value]

Over(new, old) ==
  [k \in DOMAIN new \union DOMAIN old |-> IF k \in DOMAIN new THEN new[k] ELSE old[k]]

(* The cookies an answer derives from those of its request.                 *)
HasToken(q) == q.pc = "answered" /\ "csrf" \in DOMAIN q.derived

InUse == forms \union {req[r].derived["csrf"] : r \in {q \in Slots : HasToken(req[q])}}

(* A random token, that is in no page and no answer: any will do.           *)
csrf_token == CHOOSE t \in 1..(Cardinality(InUse) + 1) : t \notin InUse

NewToken(cookies) == csrf_token   \* mutant: every page has a token of its own

(* current_or_new_csrf                                                      *)
Token(cookies) == IF cookies.csrf # None THEN cookies.csrf ELSE csrf_token

RefreshNegotiated(cookies) ==   \* mutant: the language of the page, chosen or not
  Cookie("lang", IF cookies.lang # None THEN cookies.lang ELSE CHOOSE l \in Langs : TRUE)

(* refresh_lang_cookie                                                      *)
RefreshLang(cookies) == IF cookies.lang # None THEN Cookie("lang", cookies.lang) ELSE <<>>

KeepFlash(cookies) == <<>>   \* mutant: the message is not cleared

(* read_flash, flash_clear_cookie                                           *)
ClearFlash(cookies) == IF cookies.flash # None THEN Cookie("flash", None) ELSE <<>>

(* render_page; pages without forms and error pages set the language only.  *)
Derived(result, cookies) ==
  CASE result = "page" -> Over(Cookie("csrf", Token(cookies)),
                             Over(ClearFlash(cookies), RefreshLang(cookies)))
    [] result = "public page" -> RefreshLang(cookies)
    [] result = "token" -> Cookie("csrf", Token(cookies))
    [] OTHER -> <<>>

(* An answer: the cookies it sets anew, those it derives, what they were in *)
(* the request, and the message on the page.                                *)
Reply(result, fresh, cookies) ==
  LET derived == Derived(result, cookies) IN
  [pc |-> "answered", fresh |-> fresh, derived |-> derived,
   seen |-> [k \in DOMAIN derived |-> cookies[k]],
   shows |-> IF result = "page" THEN cookies.flash ELSE None]

Emit(r, reply) == req' = [req EXCEPT ![r] = reply]

server == <<jar, forms, role, audit>>

----------------------------------------------------------------------------
(* The browser sends: a request to be authenticated, or one answered as it  *)
(* is, whatever the server does meanwhile.                                  *)
RangeOf(tasks) == {tasks[i] : i \in DOMAIN tasks}

AsksToken(h) == \E t \in RangeOf(h.tasks) : t.token # "none"

Writes(h) == \E t \in RangeOf(h.tasks) : t.call = "write"

Send(r, h, token) ==
  /\ req[r] = NoRequest
  /\ h.tasks # <<>>
  /\ token \in IF AsksToken(h) THEN forms ELSE {None}
  /\ Writes(h) => sent < MaxWrites
  /\ sent' = sent + IF Writes(h) THEN 1 ELSE 0
  /\ req' = [req EXCEPT ![r] =
       [pc |-> "waiting", tasks |-> h.tasks, again |-> h.again, ok |-> h.ok, api |-> h.api,
        cookies |-> jar, token |-> token, number |-> IF Writes(h) THEN sent + 1 ELSE None,
        gone |-> FALSE, wasAdmin |-> Writes(h) /\ role = "admin"]]
  /\ UNCHANGED <<server, done>>

Ask(r, h) ==
  /\ req[r] = NoRequest
  /\ h.tasks = <<>>
  /\ IF h.ok = "language"
     THEN \/ \E l \in Langs : Emit(r, Reply("language", Cookie("lang", l), jar))
          \/ Emit(r, Reply("public page", <<>>, jar))   \* the code is of no language
     ELSE Emit(r, Reply(h.ok, <<>>, jar))
  /\ UNCHANGED <<server, sent, done>>

(* The body, the path or the query cannot be read: no handler is run.       *)
Malformed(r) ==
  /\ req[r] = NoRequest
  /\ Emit(r, Reply("data", <<>>, jar))
  /\ UNCHANGED <<server, sent, done>>

----------------------------------------------------------------------------
(* The server answers.  A request whose client is gone is not answered, and *)
(* of its handler only the task that runs goes on.                          *)
Answer(r, result) ==
  IF req[r].gone THEN req' = [req EXCEPT ![r] = NoRequest]
  ELSE Emit(r, Reply(result, IF result = "redirect" THEN Cookie("flash", req[r].number) ELSE <<>>,
                     req[r].cookies))

(* error_response, api_error_response                                       *)
Fail(r) == Answer(r, IF req[r].api THEN "data" ELSE "public page")

Run(r, tasks, again, ok) ==
  req' = [req EXCEPT ![r].pc = "waiting", ![r].tasks = tasks, ![r].again = again, ![r].ok = ok]

NextTask(r) ==
  IF Len(req[r].tasks) = 1 \/ req[r].gone THEN Answer(r, req[r].ok)
  ELSE Run(r, Tail(req[r].tasks), req[r].again, req[r].ok)

(* create_ca_form and others: the form, with the error.                     *)
RenderAgain(r) ==
  IF req[r].again = <<>> \/ req[r].gone THEN Fail(r)
  ELSE Run(r, req[r].again, <<>>, "page")

Allowed(who) == who = "anyone" \/ role = "admin" \/ who = role

(* require_viewer, require_admin; csrf_tokens_match in check_form_csrf and   *)
(* check_csrf.                                                              *)
TokenFits(r) == req[r].cookies.csrf # None /\ req[r].token = req[r].cookies.csrf

MayCall(r) == Head(req[r].tasks).token = "none" \/ TokenFits(r)

RefuseRole(r) ==
  /\ req[r].pc = "waiting"
  /\ ~Allowed(Head(req[r].tasks).who)
  /\ Fail(r)
  /\ UNCHANGED <<server, sent, done>>

(* A task that only reads is one step: what it reads is in no answer here.  *)
Read(r) ==
  /\ req[r].pc = "waiting"
  /\ Allowed(Head(req[r].tasks).who)
  /\ Head(req[r].tasks).call # "write"
  /\ (MayCall(r) /\ NextTask(r)) \/ Fail(r)
  /\ UNCHANGED <<server, sent, done>>

Authenticate(r) ==
  /\ req[r].pc = "waiting"
  /\ Allowed(Head(req[r].tasks).who)
  /\ Head(req[r].tasks).call = "write"
  /\ req' = [req EXCEPT ![r].pc = "admitted"]
  /\ UNCHANGED <<server, sent, done>>

RefuseToken(r) ==
  /\ req[r].pc = "admitted"
  /\ ~MayCall(r)
  /\ Fail(r)
  /\ UNCHANGED <<server, sent, done>>

Commit(r) == done' = done \union {req[r].number}

(* A refusal, or a panic, can come before the commit or, when its result is *)
(* read back, after it.                                                     *)
Write(r) ==
  /\ req[r].pc = "admitted"
  /\ MayCall(r)
  /\ \/ NextTask(r) /\ Commit(r)
     \/ (RenderAgain(r) \/ Fail(r)) /\ (Commit(r) \/ UNCHANGED done)
  /\ UNCHANGED <<server, sent>>

----------------------------------------------------------------------------
(* Cookies that have changed since the request was sent, and that its       *)
(* answer sets to something derived from older ones; until one is set anew. *)
Late(reply) ==
  (late \union {k \in DOMAIN reply.seen : reply.seen[k] # jar[k]}) \ DOMAIN reply.fresh

(* The answer arrives.                                                      *)
Receive(r) ==
  LET reply == req[r] IN
  /\ reply.pc = "answered"
  /\ jar' = Over(reply.fresh, Over(reply.derived, jar))
  /\ forms' = forms \union {reply.derived[k] : k \in DOMAIN reply.derived \intersect {"csrf"}}
  /\ late' = Late(reply)
  /\ owed' = IF "flash" \in DOMAIN reply.fresh THEN reply.fresh["flash"]
             ELSE IF reply.shows = owed \/ "flash" \in late' THEN None ELSE owed
  /\ chosen' = IF "lang" \in DOMAIN reply.fresh THEN reply.fresh["lang"]
               ELSE IF "lang" \in late' THEN None ELSE chosen
  /\ req' = [req EXCEPT ![r] = NoRequest]
  /\ UNCHANGED <<role, sent, done>>

(* Max-Age of the message.                                                  *)
FlashExpires ==
  /\ jar.flash # None
  /\ jar' = [jar EXCEPT !.flash = None]
  /\ owed' = None
  /\ UNCHANGED <<forms, req, role, sent, done, chosen, late>>

(* The browser closes the connection: the request or its answer is lost, or *)
(* a task that is running, which is to be seen if it writes, goes on.       *)
GiveUp(r) ==
  /\ \/ /\ req[r].pc \in {"waiting", "answered"}
        /\ req' = [req EXCEPT ![r] = NoRequest]
     \/ /\ req[r].pc \in {"waiting", "admitted"}
        /\ Head(req[r].tasks).call = "write"
        /\ req' = [req EXCEPT ![r].gone = TRUE]
  /\ UNCHANGED <<server, sent, done>>

(* Another admin deletes the user, or creates one of that name.             *)
SetRole(new) ==
  /\ new # role
  /\ role' = new
  /\ req' = [r \in Slots |->
       IF req[r].pc \in {"waiting", "admitted"} /\ req[r].number # None
       THEN [req[r] EXCEPT !.wasAdmin = @ \/ new = "admin"] ELSE req[r]]
  /\ UNCHANGED <<jar, forms, sent, done, audit>>

WebNext ==
  \/ \E r \in Slots :
       \/ \E h \in Handlers : \E token \in forms \union {None} : Send(r, h, token)
       \/ \E h \in Handlers : Ask(r, h)
       \/ Malformed(r)
       \/ RefuseRole(r) \/ Read(r) \/ Authenticate(r)
       \/ RefuseToken(r) \/ Write(r)
       \/ Receive(r)
       \/ GiveUp(r)
  \/ FlashExpires
  \/ \E new \in Roles : SetRole(new)

WebSpec == WebInit /\ [][WebNext]_webVars

----------------------------------------------------------------------------
(* Every variable has its type.                                             *)
WebTypeOK ==
  /\ jar \in [csrf : Tokens \union {None}, flash : 0..sent, lang : Langs \union {None}]
  /\ forms \subseteq Tokens
  /\ \A r \in Slots :
       req[r].pc \in {"free", "waiting", "admitted", "answered"}
  /\ role \in Roles
  /\ done \subseteq 1..sent
  /\ owed \in 0..sent
  /\ chosen \in Langs \union {None}
  /\ late \subseteq {"csrf", "flash", "lang"}

(* Whatever handler a change came through, its sender was an admin at some  *)
(* moment since it sent the request (admin_blocking; the restore, which     *)
(* reads its upload in between), and its token was that of its cookies      *)
(* (check_form_csrf, check_csrf).                                           *)
WritesJustified ==
  [][\A n \in done' \ done : \E r \in Slots :
       /\ req[r].pc = "admitted"
       /\ req[r].number = n
       /\ req[r].wasAdmin
       /\ TokenFits(r)]_webVars

(* The form in an open page can be sent (current_or_new_csrf keeps the      *)
(* token of the browser), unless first visits overlapped: each of them got  *)
(* a token, and the last answer won.                                        *)
FormsAccepted == "csrf" \notin late => \A token \in forms : token = jar.csrf

(* A message of success is about a change that was committed; it stays      *)
(* until a page shows it or it expires, and then is gone (render_page),     *)
(* unless a page that was sent before it cleared it.                        *)
MessagesFit ==
  /\ jar.flash \in done \union {None}
  /\ "flash" \notin late => jar.flash = owed

(* The language stays the one last chosen (refresh_lang_cookie), unless a   *)
(* page that was sent before the choice arrives after it.                   *)
LanguageKept == "lang" \notin late => jar.lang = chosen
=============================================================================
