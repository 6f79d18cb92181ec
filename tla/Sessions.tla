------------------------------ MODULE Sessions ------------------------------
(***************************************************************************)
(* The sessions of one browser: sign-in at an enterprise's provider        *)
(* (oidc_auth), local sign-in, renewed proof of identity before dangerous  *)
(* operations, and the tickets with which the console opens a WebSocket    *)
(* (portrait_console_access).                                              *)
(*                                                                         *)
(* The server keeps no session: all there is are signed cookies.  A request *)
(* carries the cookies of its moment, and its response changes the jar when *)
(* it arrives; the tabs of the browser take these steps in any order.      *)
(* Administrators change the tenant and the member meanwhile.  Signatures  *)
(* are taken to hold: a cookie is a value that the server has made.        *)
(***************************************************************************)
EXTENDS Integers, FiniteSets, FiniteSetsExt, Sequences, TLC

CONSTANTS
  Tabs,       (* tabs of the browser                                       *)
  Procs,      (* processes of the API                                      *)
  Scenes,     (* where the tickets are kept, how the provider answers, the *)
              (* tenant and the member at first, and what is done in each  *)
              (* tab                                                       *)
  FlowAge, SessionAge, TokenAge, StepUpAge, TicketAge, (* lifetimes        *)
  MaxTickets, (* CONSOLE_WS_TICKET_MAX_ENTRIES                             *)
  Skew,       (* by how much a time may be ahead: 60 seconds               *)
  MaxTime, MaxFaults, MaxChanges, (* bounds                                *)
  Nil         (* no value                                                  *)

Cookies == {"flow", "local", "oidc", "csrf"}
Empty   == [c \in Cookies |-> Nil]

VARIABLES
  config,  (* redis: whether tickets are kept in Redis; of the provider,   *)
           (* tells: whether it says when a person has authenticated,      *)
           (* ahead: by how much its clock is, and whether phone numbers   *)
           (* are verified                                                 *)
  now,     (* the time                                                     *)
  house,   (* the tenant and the member of the access state               *)
  jar,     (* the cookies                                                  *)
  tab,     (* where each tab is                                            *)
  todo,    (* what is still to be done in each tab                         *)
  sso,     (* when the person last authenticated at the provider, or Nil   *)
  proof,   (* when the person last proved who they are, anywhere           *)
  tickets, (* the tickets of each store                                    *)
  opened,  (* the WebSockets that were opened, and by which ticket         *)
  danger,  (* the last dangerous operation that was let through            *)
  fresh,   (* the next unused random number                                *)
  left     (* what is left of MaxFaults and MaxChanges                     *)

vars == <<config, now, house, jar, tab, todo, sso, proof, tickets, opened, danger, fresh, left>>

Free    == [pc |-> "free", sent |-> Empty, answer |-> <<>>, ask |-> Nil, code |-> Nil]
Stores  == Procs \cup {"redis"}
Doing(t) == Head(todo[t])
At(t, p) == todo[t] # <<>> /\ tab[t].pc = p

Init ==
  /\ \E s \in Scenes : config = s.config /\ house = s.house /\ todo = s.todo
  /\ now = 0 /\ jar = Empty /\ tab = [t \in Tabs |-> Free]
  /\ sso = Nil /\ proof = Nil /\ tickets = [s \in Stores |-> {}]
  /\ opened = <<>> /\ danger = Nil /\ fresh = 0
  /\ left = [faults |-> MaxFaults, changes |-> MaxChanges]

-----------------------------------------------------------------------------
(* Cookies and what the server reads in them.                              *)

\* _read_signed_payload: a browser sends, and the server reads, what has not expired.
Live(cookies) == [c \in Cookies |-> IF cookies[c] # Nil /\ cookies[c].exp > now THEN cookies[c] ELSE Nil]

\* resolve_member: by the subject, or by a verified phone if no subject is bound to it.
Member(verified) ==
  LET m == house.member
  IN IF m # Nil /\ (m.subject = "me" \/ (m.subject = Nil /\ m.phone /\ verified)) THEN m ELSE Nil

\* _managed_session_claims: the roles of an enterprise session are those of its member
\* now, unless nothing is managed.
Managed(s) ==
  LET m == Member(s.verified)
  IN IF house.tenant = "none" /\ m = Nil /\ ~s.managed THEN s.roles
     ELSE IF house.tenant = "disabled" \/ m = Nil \/ m.status # "active" THEN {} ELSE m.roles

\* browser_session_claims
Session(cookies) == IF cookies.local # Nil THEN cookies.local ELSE cookies.oidc
Roles(cookies)   == IF cookies.local # Nil THEN {"writer", "reader"} ELSE Managed(cookies.oidc)

\* require_browser_session_csrf: the page sends the cookie it reads as a header.
CsrfHolds(cookies) == cookies.csrf # Nil /\ cookies.csrf.is = Session(cookies).csrf

Permits(cookies, role) ==
  Session(cookies) # Nil /\ role \in Roles(cookies) /\ CsrfHolds(cookies)

\* step_up_seconds_remaining
Recent(cookies) ==
  /\ Session(cookies) # Nil
  /\ Session(cookies).auth <= now + Skew
  /\ now - Session(cookies).auth < StepUpAge

ClearOidc == [flow |-> Nil, oidc |-> Nil, csrf |-> Nil]
ClearAll  == ClearOidc @@ [local |-> Nil]
Csrf      == [is |-> fresh, exp |-> now + SessionAge]

-----------------------------------------------------------------------------
(* Tickets.                                                                *)
Store(p)     == IF config.redis THEN "redis" ELSE p
Unexpired(s) == {k \in tickets[s] : k.exp > now}
Newest(n, set) == {k \in set : Cardinality({o \in set : o.exp > k.exp \/ (o.exp = k.exp /\ o.id > k.id)}) < n}

\* issue_console_ws_ticket: a full memory forgets the tickets that expire first.
Issued(s, ticket) ==
  [tickets EXCEPT ![s] = (IF config.redis THEN Unexpired(s) ELSE Newest(MaxTickets - 1, Unexpired(s))) \cup {ticket}]

\* consume_console_ws_ticket takes the ticket away, whether or not it fits.
Taken(s, id) == [tickets EXCEPT ![s] = {k \in Unexpired(s) : k.id # id}]

-----------------------------------------------------------------------------
(* Requests that are answered at once: the answer is what the response     *)
(* does to the jar.                                                        *)
Answers(t, answer) ==
  tab' = [tab EXCEPT ![t].pc = "answer", ![t].answer = answer]

\* _set_local_session
LocalSession ==
  ClearOidc @@ [local |-> [csrf |-> fresh, auth |-> now, exp |-> now + SessionAge]]
LocalCookies == [LocalSession EXCEPT !.csrf = Csrf]

LocalLogin(t) ==
  /\ At(t, "free") /\ Doing(t).op = "local"
  /\ proof' = now /\ fresh' = fresh + 1 /\ Answers(t, LocalCookies)
  /\ UNCHANGED <<config, now, house, jar, todo, sso, tickets, opened, danger, left>>

LocalStepUp(t) ==
  /\ At(t, "free") /\ Doing(t).op = "localStep"
  /\ LET c == Live(jar)
     IN IF c.local # Nil /\ CsrfHolds(c)
        THEN proof' = now /\ fresh' = fresh + 1 /\ Answers(t, LocalCookies)
        ELSE Answers(t, <<>>) /\ UNCHANGED <<proof, fresh>>
  /\ UNCHANGED <<config, now, house, jar, todo, sso, tickets, opened, danger, left>>

\* browser_logout: without a session everything is cleared, with one the CSRF token must
\* be there.
Logout(t) ==
  /\ At(t, "free") /\ Doing(t).op = "logout"
  /\ LET c == Live(jar)
     IN Answers(t, IF Session(c) = Nil \/ CsrfHolds(c) THEN ClearAll ELSE <<>>)
  /\ UNCHANGED <<config, now, house, jar, todo, sso, proof, tickets, opened, danger, fresh, left>>

\* A route with require_step_up_authentication and a permission.
Dangerous(t) ==
  /\ At(t, "free") /\ Doing(t).op = "danger"
  /\ danger' = IF Permits(Live(jar), "writer") /\ Recent(Live(jar))
               THEN [at |-> now, proof |-> proof] ELSE danger
  /\ Answers(t, <<>>)
  /\ UNCHANGED <<config, now, house, jar, todo, sso, proof, tickets, opened, fresh, left>>

\* portrait_console_ws_ticket, for a job or a stream that exists.
AskTicket(t) ==
  /\ At(t, "free") /\ Doing(t).op = "ticket"
  /\ IF Permits(Live(jar), "reader")
     THEN \E p \in Procs :
            /\ tickets' = Issued(Store(p), [id |-> fresh, on |-> Doing(t).on, exp |-> now + TicketAge])
            /\ fresh' = fresh + 1
            /\ tab' = [tab EXCEPT ![t].pc = "answer", ![t].answer = <<>>, ![t].ask = fresh]
     ELSE Answers(t, <<>>) /\ UNCHANGED <<tickets, fresh>>
  /\ UNCHANGED <<config, now, house, jar, todo, sso, proof, opened, danger, left>>

\* require_websocket_permission with the ticket of the tab, at any process.
Connect(t) ==
  /\ At(t, "free") /\ Doing(t).op = "connect"
  /\ \E p \in Procs :
       LET s == Store(p)
           fits == {k \in Unexpired(s) : k.id = tab[t].ask}
       IN /\ tickets' = Taken(s, tab[t].ask)
          /\ opened' = IF \E k \in fits : k.on = Doing(t).on
                       THEN Append(opened, [ticket |-> tab[t].ask, on |-> Doing(t).on, at |-> now]) ELSE opened
  /\ Answers(t, <<>>)
  /\ UNCHANGED <<config, now, house, jar, todo, sso, proof, danger, fresh, left>>

-----------------------------------------------------------------------------
(* The flow of a sign-in at the provider.                                  *)

\* _start_oidc_flow, oidc_login, oidc_step_up: a step-up needs an enterprise session.
Start(t) ==
  /\ At(t, "free") /\ Doing(t).op = "login"
  /\ IF Doing(t).step /\ (Live(jar).local # Nil \/ Live(jar).oidc = Nil)
     THEN Answers(t, <<>>) /\ UNCHANGED fresh
     ELSE /\ fresh' = fresh + 1
          /\ tab' = [tab EXCEPT ![t].pc = "redirect",
                       ![t].answer = [flow |-> [state |-> fresh, step |-> Doing(t).step, exp |-> now + FlowAge]],
                       ![t].ask = fresh]
  /\ UNCHANGED <<config, now, house, jar, todo, sso, proof, tickets, opened, danger, left>>

\* The response stores the cookie of the flow and sends the tab to the provider.
Redirected(t) ==
  /\ At(t, "redirect")
  /\ jar' = tab[t].answer @@ jar
  /\ tab' = [tab EXCEPT ![t].pc = "provider", ![t].answer = <<>>]
  /\ UNCHANGED <<config, now, house, todo, sso, proof, tickets, opened, danger, fresh, left>>

\* The provider, which is not part of this code: it asks for a password when it must
\* (prompt=login) or knows nobody, and its clock may be ahead.
Authenticates(t) ==
  /\ At(t, "provider")
  /\ LET asks == Doing(t).step \/ sso = Nil
         at   == IF asks THEN now + config.ahead ELSE sso
     IN /\ sso' = at /\ proof' = IF asks THEN now ELSE proof
        /\ tab' = [tab EXCEPT ![t].pc = "back",
                     ![t].code = [nonce |-> tab[t].ask, verified |-> config.verified, exp |-> now + TokenAge,
                                  iat |-> now + config.ahead, auth |-> IF config.tells THEN at ELSE Nil]]
  /\ UNCHANGED <<config, now, house, jar, todo, tickets, opened, danger, fresh, left>>

\* The person gives up there: the callback is told of an error.
GivesUp(t) ==
  /\ At(t, "provider")
  /\ tab' = [tab EXCEPT ![t].pc = "back", ![t].code = Nil]
  /\ UNCHANGED <<config, now, house, jar, todo, sso, proof, tickets, opened, danger, fresh, left>>

\* The request of the callback leaves with the cookies of its moment.
CallsBack(t) ==
  /\ At(t, "back")
  /\ tab' = [tab EXCEPT ![t].pc = "callback", ![t].sent = Live(jar)]
  /\ UNCHANGED <<config, now, house, jar, todo, sso, proof, tickets, opened, danger, fresh, left>>

\* _validate_id_token and _require_recent_oidc_authentication
Valid(flow, code) ==
  /\ code.nonce = flow.state /\ code.exp > now /\ code.iat <= now + Skew
  /\ code.auth # Nil => code.auth <= now + Skew
  /\ flow.step => code.auth # Nil /\ now - code.auth <= StepUpAge

\* _oidc_session_access: a member who is met by phone is bound, even one who is refused.
Bound(verified) == IF Member(verified) = Nil THEN house ELSE [house EXCEPT !.member.subject = "me"]
Welcome(verified) ==
  /\ house.tenant # "disabled"
  /\ Member(verified) # Nil => Member(verified).status = "active"

\* _set_oidc_session
OidcCookies(code) ==
  LET m == Member(code.verified)
      exp == Min({code.exp, now + SessionAge})
  IN [local |-> Nil, flow |-> Nil, csrf |-> [is |-> fresh, exp |-> exp],
      oidc |-> [csrf |-> fresh, exp |-> exp, verified |-> code.verified,
                auth |-> IF code.auth = Nil THEN code.iat ELSE code.auth,
                managed |-> m # Nil, roles |-> IF m = Nil THEN {"reader"} ELSE m.roles]]

\* oidc_callback: whatever goes wrong, the cookies of the enterprise sign-in are cleared.
Callback(t) ==
  /\ At(t, "callback")
  /\ LET flow == tab[t].sent.flow
         code == tab[t].code
         known == flow # Nil /\ flow.exp > now /\ code # Nil /\ flow.state = tab[t].ask
     IN \E broken \in BOOLEAN :
          /\ broken => known /\ left.faults > 0
          /\ left' = IF broken THEN [left EXCEPT !.faults = @ - 1] ELSE left
          /\ IF known /\ ~broken /\ Valid(flow, code)
             THEN /\ house' = IF house.tenant = "disabled" THEN house ELSE Bound(code.verified)
                  /\ fresh' = fresh + 1
                  /\ Answers(t, IF Welcome(code.verified) THEN OidcCookies(code) ELSE ClearOidc)
             ELSE Answers(t, ClearOidc) /\ UNCHANGED <<house, fresh>>
  /\ UNCHANGED <<config, now, jar, todo, sso, proof, tickets, opened, danger>>

\* A response arrives.
Receive(t) ==
  /\ At(t, "answer")
  /\ jar' = tab[t].answer @@ jar
  /\ tab' = [tab EXCEPT ![t] = [Free EXCEPT !.ask = tab[t].ask]]
  /\ todo' = [todo EXCEPT ![t] = Tail(@)]
  /\ UNCHANGED <<config, now, house, sso, proof, tickets, opened, danger, fresh, left>>

-----------------------------------------------------------------------------
(* The tenant, the member and the time (see Access for how they change).   *)
Administer ==
  /\ left.changes > 0 /\ left' = [left EXCEPT !.changes = @ - 1]
  /\ \/ \E s \in {"active", "disabled"} : s # house.tenant /\ house' = [house EXCEPT !.tenant = s]
     \/ /\ house.tenant # "none"
        /\ \E m \in [subject : {Nil}, phone : BOOLEAN, status : {"active"}, roles : {{"writer", "reader"}}] :
             house.member = Nil /\ house' = [house EXCEPT !.member = m]
     \/ /\ house.member # Nil
        /\ \/ house' = [house EXCEPT !.member = Nil]
           \/ \E s \in {"active", "disabled"} :
                s # house.member.status /\ house' = [house EXCEPT !.member.status = s]
           \/ house.member.roles # {"reader"} /\ house' = [house EXCEPT !.member.roles = {"reader"}]
           \/ house.member.subject # "other" /\ house' = [house EXCEPT !.member.subject = "other"]
  /\ UNCHANGED <<config, now, jar, tab, todo, sso, proof, tickets, opened, danger, fresh>>

Tick ==
  /\ now < MaxTime /\ now' = now + 1
  /\ UNCHANGED <<config, house, jar, tab, todo, sso, proof, tickets, opened, danger, fresh, left>>

Next ==
  \/ \E t \in Tabs :
       \/ LocalLogin(t) \/ LocalStepUp(t) \/ Logout(t) \/ Dangerous(t) \/ AskTicket(t) \/ Connect(t)
       \/ Start(t) \/ Redirected(t) \/ Authenticates(t) \/ GivesUp(t) \/ CallsBack(t) \/ Callback(t)
       \/ Receive(t)
  \/ Administer \/ Tick

Spec == Init /\ [][Next]_vars

-----------------------------------------------------------------------------
(* Properties.                                                             *)
TypeOK ==
  /\ \A t \in Tabs : tab[t].pc \in {"free", "redirect", "provider", "back", "callback", "answer"}
  /\ DOMAIN jar = Cookies /\ now \in 0..MaxTime
  /\ house.tenant \in {"none", "active", "disabled"}

\* Whatever order the responses arrive in, the browser has one session, and the CSRF
\* token that it sends is that session's: only a local session can be left without one,
\* by an enterprise sign-in that failed beside it.
OneSession ==
  LET c == Live(jar)
  IN /\ c.local = Nil \/ c.oidc = Nil
     /\ Session(c) # Nil => CsrfHolds(c) \/ (c.local # Nil /\ c.csrf = Nil)

\* The enterprise session in the jar does what its member may do now: an administrator
\* who disables or removes the member need not wait for the session to expire.
RightsAreCurrent ==
  LET c == Live(jar)
      m == house.member
  IN Session(c) = c.oidc /\ c.oidc # Nil /\ Permits(c, "writer") =>
       house.tenant = "active" /\ m # Nil /\ m.status = "active" /\ "writer" \in m.roles /\ m.subject # "other"

\* A ticket opens one WebSocket, for the resource and in the time that it was issued for;
\* the memory of a process keeps no more tickets than it may.
TicketsOnce ==
  /\ \A i, j \in DOMAIN opened : opened[i].ticket = opened[j].ticket => i = j
  /\ \A s \in Stores : \A k \in tickets[s], i \in DOMAIN opened : opened[i].ticket # k.id
  /\ \A p \in Procs : Cardinality(tickets[p]) <= MaxTickets

\* A dangerous operation follows a proof of identity, with as much as the clocks differ
\* added; of a provider that does not tell when, the time of its answer is taken.
DangerIsRecent ==
  danger # Nil /\ (config.tells \/ sso = Nil) =>
    danger.proof # Nil /\ danger.at - danger.proof < StepUpAge + config.ahead

SessionsAreSound == TypeOK /\ OneSession /\ RightsAreCurrent /\ TicketsOnce /\ DangerIsRecent
=============================================================================
