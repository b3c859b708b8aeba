-------------------------------- MODULE Saml --------------------------------
(***************************************************************************)
(* The SAML identity-provider endpoint (src/net/saml_handler.go).  A user *)
(* agent sends a request; handleSamlReq either redirects it to /login,    *)
(* after setting the auth-flow cookie, or, when the request carries a     *)
(* session, answers with a SAMLResponse whose attribute statement         *)
(* genSamlResponse builds from the client's attribute configuration.     *)
(*                                                                         *)
(* Parsing (the form, the XML of the AuthnRequest) and the lookups of the *)
(* provider, the client and the user are external; a request carries     *)
(* their outcomes.  An attribute value is a string, kept as a sequence of *)
(* characters because the code splits it on a delimiter.                  *)
(***************************************************************************)
EXTENDS Integers, Sequences, SequencesExt

CONSTANTS
  AttrNames,  \* the keys of cl.Saml.Attributes
  Chars,      \* the characters of attribute values
  Delim,      \* the character a client sets as StaticMultiValDelim
  MaxLen,     \* bound on the length of a configured static value
  NoVal       \* GetValueFrom found nothing in the user

ASSUME Delim \in Chars /\ MaxLen \in Nat

Str == BoundedSeq(Chars, MaxLen)

(* cl.Saml.Attributes: per name a StaticVal ("" when the value comes from *)
(* the user) and a StaticMultiValDelim ("" or one character).             *)
AttrConfigs == [AttrNames -> [static : Str, delim : {<<>>, <<Delim>>}]]
(* The user's value of each attribute, as GetValueFrom returns it.      *)
UserValues == [AttrNames -> Str \cup {NoVal}]

(* What a request brings, and what the external calls on it return.      *)
Requests ==
  [session : BOOLEAN,      \* getSession(r) # nil
   formOk : BOOLEAN,       \* r.ParseForm() succeeds
   dupParam : BOOLEAN,     \* some form parameter is given twice
   get : BOOLEAN,          \* r.Method = GET, else POST
   unescapeOk : BOOLEAN,   \* url.QueryUnescape of SAMLRequest succeeds
   xmlOk : BOOLEAN,        \* the decoded bytes unmarshal to an AuthNRequest
   clientFound : BOOLEAN,  \* getPrFromParam # nil and GetClient(Issuer) # nil
   userFound : BOOLEAN,    \* pr.GetUserById(session.Sub) succeeds
   user : UserValues]

NoResponse == [status |-> "none"]

VARIABLES
  cookie,  \* the auth-flow cookie in the user agent: "none" or "saml"
  resp     \* the last response sent

vars == <<cookie, resp>>

-----------------------------------------------------------------------------
(* strings.Split(s, d) for a one-character d: a value per delimiter       *)
(* occurrence plus one, the empty ones included.                          *)
SplitOn(s, d) ==
  FoldLeft(LAMBDA acc, c : IF c = d THEN Append(acc, <<>>)
                           ELSE [acc EXCEPT ![Len(acc)] = Append(@, c)],
           <<<<>>>>, s)

(* The entries of sp.Attributes for attribute k of config a, keyed by the *)
(* map key: k itself, or k + string(i) for the i-th split value.         *)
StaticSingle(k, a) == {[key |-> <<k>>, value |-> a.delim]}
StaticSplit(k, a) ==
  LET parts == SplitOn(a.static, Head(a.delim))
  IN  {[key |-> <<k, i - 1>>, value |-> parts[i]] : i \in DOMAIN parts}
FromUser(k, u) == IF u = NoVal THEN {} ELSE {[key |-> <<k>>, value |-> u]}

(* The attribute loop of genSamlResponse.                                 *)
Entries(cl, user) ==
  UNION {CASE cl[k].static # <<>> /\ cl[k].delim = <<>> -> StaticSingle(k, cl[k])
           [] cl[k].static # <<>> /\ cl[k].delim # <<>> -> StaticSplit(k, cl[k])
           [] cl[k].static = <<>>                       -> FromUser(k, user[k])
         : k \in AttrNames}

(* genSamlResponse: a failed user lookup is a 500, otherwise the response *)
(* is rendered with the attribute statement.                              *)
GenSamlResponse(r, cl) ==
  IF r.userFound THEN [status |-> "ok", cl |-> cl, attrs |-> Entries(cl, r.user)]
                 ELSE [status |-> "serverError"]

(* The SAMLRequest parameter: for GET query-unescaped and base64-decoded, *)
(* with a failed unescape leaving nil data; for POST the raw bytes.       *)
Decoded(r) == (r.get => r.unescapeOk) /\ r.xmlOk

(* sendSamlResponse, its checks in the order of the code.                *)
SendSamlResponse(r, cl) ==
  CASE ~r.formOk                                -> [status |-> "badRequest"]
    [] r.formOk /\ ~Decoded(r)                  -> [status |-> "badRequest"]
    [] r.formOk /\ Decoded(r) /\ ~r.clientFound -> [status |-> "notFound"]
    [] r.formOk /\ Decoded(r) /\ r.clientFound  -> GenSamlResponse(r, cl)

(* parseParamMap refuses a parameter that occurs more than once.        *)
ParamsOk(r) == ~r.dupParam

Init == cookie = "none" /\ resp = NoResponse

(* handleSamlReq, with a session: the SAMLResponse is sent.             *)
ServeWithSession(r, cl) ==
  /\ r.session
  /\ resp' = SendSamlResponse(r, cl)
  /\ UNCHANGED cookie

(* handleSamlReq, without a session: the form is parsed, the auth-flow   *)
(* cookie is set, and the parameters are copied into the redirect to     *)
(* /login; an error on the way is a 400.                                  *)
ServeWithoutSession(r) ==
  /\ ~r.session
  /\ \/ ~r.formOk /\ resp' = [status |-> "badRequest"] /\ UNCHANGED cookie
     \/ r.formOk /\ cookie' = "saml"
        /\ resp' = IF ParamsOk(r) THEN [status |-> "redirect"] ELSE [status |-> "badRequest"]

Next ==
  \E r \in Requests, cl \in AttrConfigs :
    ServeWithSession(r, cl) \/ ServeWithoutSession(r)

Spec == Init /\ [][Next]_vars

-----------------------------------------------------------------------------
(* The values the response carries for attribute k, in key order.        *)
SentValues(k) ==
  LET es == {e \in resp.attrs : e.key[1] = k}
  IN  IF \E e \in es : Len(e.key) = 1
        THEN <<(CHOOSE e \in es : Len(e.key) = 1).value>>
        ELSE [i \in 1 .. Cardinality(es) |-> (CHOOSE e \in es : e.key = <<k, i - 1>>).value]

(* The values of a list joined with a delimiter (strings.Join).          *)
JoinWith(parts, d) ==
  IF parts = <<>> THEN <<>>
  ELSE FoldLeft(LAMBDA acc, p : acc \o d \o p, Head(parts), Tail(parts))

(* Every attribute a client configures with a static value reaches the   *)
(* service provider in full: the values genSamlResponse puts in the      *)
(* attribute statement, joined with StaticMultiValDelim, give StaticVal  *)
(* back, a single value when no delimiter is set.                         *)
StaticValueSent ==
  resp.status = "ok" =>
    \A k \in AttrNames :
      resp.cl[k].static # <<>> => JoinWith(SentValues(k), resp.cl[k].delim) = resp.cl[k].static

=============================================================================
