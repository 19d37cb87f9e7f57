---------------------------- MODULE SlimeRouter ----------------------------
(***************************************************************************)
(* SlimeRouter and its RadixTreeMiddleware between the posts of a rollout  *)
(* and the SGLang servers.  A post is retried by its client, a generation  *)
(* that was not finished is repeated by the middleware, and every request is    *)
(* sent to the server with the fewest under way.  That the body of a       *)
(* request is there for every try of the middleware is taken from its      *)
(* code: the web framework decides it.                                     *)
(*                                                                         *)
(* The router is one event loop: an action of it ends where its coroutine  *)
(* awaits.  Between two tries the middleware sleeps without awaiting, and  *)
(* nothing of the router runs.                                             *)
(***************************************************************************)
EXTENDS RadixTrie, FiniteSets, FiniteSetsExt

CONSTANTS
  Posts,          \* numbers of the posts of the rollout
  Prompt,         \* the text each asks with
  Outputs,        \* token sequences a server may generate for each
  Workers,        \* numbers of the servers
  FirstWorkers,   \* those registered when the rollout starts, in that order
  MaxRetries,     \* max_retries of post (60)
  MaxTries,       \* of the middleware (5)
  Options         \* see below

\* middleware: RadixTreeMiddleware is loaded.  distributed: --use-distributed-post.
\* fault: how a server fails, "dead" (it refuses connections) or "sick" (it
\* accepts them and never answers).  rejects: a server may answer a generation with
\* an HTTP error.  aborts, faults, posterDeaths: bounds on them.
ASSUME RouterAssumption ==
  /\ MaxRetries \in Nat \ {0} /\ MaxTries \in Nat \ {0}
  /\ FirstWorkers \in Seq(Workers) /\ IsInjective(FirstWorkers)
  /\ IsFiniteSet(Workers) /\ IsFiniteSet(Posts)
  /\ \A p \in Posts : Prompt[p] \in Text /\ Outputs[p] # {} /\ Outputs[p] \subseteq Seq(Text) \ {<<>>}
  /\ \A o \in Options : o.fault \in {"dead", "sick"}

VARIABLES
  options,
  worker_urls,   \* sequence of [url, count], in order of registration
  server,        \* of each worker: "starting", "up", "sick", "dead"
  post,          \* of each post: state, retry_count, and who sends it
  call,          \* the HTTP requests in the router
  trie,
  inserted,      \* what the trie was told, [text, tokens]
  asleep,        \* the request the event loop sleeps for, if any
  left,          \* requests of each worker whose client went away in body()
  shutdown,      \* engine.shutdown of each worker: "no", "asked", "over"
  aborts, posterDeaths   \* so far

routerVars == <<worker_urls, trie, inserted, asleep, left>>
vars == <<options, server, post, call, routerVars, shutdown, aborts, posterDeaths>>

\* A post has one request in the router, and one more whose client died.
Ids == ({"actor", "local"} \X Posts) \cup ({"remove"} \X Workers)
IsGenerate(c) == c[1] # "remove"
Nobody == <<>>
NoReply == [status |-> "none", text |-> <<>>, tokens |-> <<>>]
NoCall == [at |-> "out", url |-> 0, tries |-> 0, input |-> <<>>, reply |-> NoReply, heard |-> TRUE]

\* Only the middleware stops a request before the proxy does.
Caches(c) == options.middleware /\ IsGenerate(c)
Arrived(c) == [NoCall EXCEPT !.at = IF Caches(c) THEN "arrived" ELSE "routing"]

Init ==
  /\ options \in Options
  /\ worker_urls = [i \in DOMAIN FirstWorkers |-> [url |-> FirstWorkers[i], count |-> 0]]
  /\ server = [w \in Workers |-> IF w \in Range(FirstWorkers) THEN "up" ELSE "starting"]
  /\ post = [p \in Posts |-> [state |-> "ready", retry_count |-> 0,
                              by |-> IF options.distributed THEN "actor" ELSE "local"]]
  /\ call = [c \in Ids |-> NoCall]
  /\ trie = EmptyTrie /\ inserted = {}
  /\ asleep = Nobody /\ left = [w \in Workers |-> 0]
  /\ shutdown = [w \in Workers |-> "no"]
  /\ aborts = 0 /\ posterDeaths = 0
-----------------------------------------------------------------------------
(* The clients: post of http_utils.py *)

Send(p) ==
  /\ post[p].state = "ready"
  /\ post' = [post EXCEPT ![p].state = "waiting"]
  /\ call' = [call EXCEPT ![<<post[p].by, p>>] = Arrived(<<post[p].by, p>>)]
  /\ UNCHANGED <<options, server, routerVars, shutdown, aborts, posterDeaths>>

\* When a poster actor fails, the post is sent again from here.
FallenBack == [state |-> "ready", retry_count |-> 0, by |-> "local"]

\* _post after an answer that raise_for_status rejects, or none.
Retried_uncounted(old) == [old EXCEPT !.state = "ready"]
Retried(old) ==
  CASE old.retry_count + 1 < MaxRetries ->
         [old EXCEPT !.state = "ready", !.retry_count = @ + 1]
    [] old.retry_count + 1 >= MaxRetries /\ old.by = "actor" -> FallenBack
    [] old.retry_count + 1 >= MaxRetries /\ old.by = "local" -> [old EXCEPT !.state = "failed"]

AfterReply(old, reply) ==
  IF reply.status \in {"stop", "abort"} THEN [old EXCEPT !.state = "answered"] ELSE Retried(old)

\* The actor that waits for the answer dies.
PosterDies(p) ==
  /\ posterDeaths < options.posterDeaths
  /\ post[p].state = "waiting" /\ post[p].by = "actor"
  /\ post' = [post EXCEPT ![p] = FallenBack]
  /\ call' = [call EXCEPT ![<<"actor", p>>].heard = FALSE]
  /\ posterDeaths' = posterDeaths + 1
  /\ UNCHANGED <<options, server, routerVars, shutdown, aborts>>
-----------------------------------------------------------------------------
(* The router *)

Awake == asleep = Nobody
At(c, place) == call[c].at = place
Urls == {worker_urls[i].url : i \in DOMAIN worker_urls}

AddWorker(w) ==
  /\ Awake /\ server[w] = "starting"
  /\ server' = [server EXCEPT ![w] = "up"]
  /\ worker_urls' = Append(worker_urls, [url |-> w, count |-> 0])
  /\ UNCHANGED <<options, post, call, trie, inserted, asleep, left, shutdown, aborts, posterDeaths>>

\* A body that is awaited when its client is gone may raise ClientDisconnect.
Gone(c) == ~call[c].heard

\* dispatch up to the loop.
Retrieve(c) ==
  LET text == Prompt[c[2]] IN \E path \in DOMAIN trie :
    /\ last_node(trie, text, path)
    /\ call' = [call EXCEPT ![c].at = "routing", ![c].tries = 1,
                            ![c].input = Retrieved(trie, path, text)]
    /\ trie' = AfterRetrieval(trie, path, text)
    /\ inserted' = IF trie' = trie THEN inserted
                   ELSE inserted \cup {[text |-> text, tokens |-> tokenizer(text)]}
Dispatch(c) ==
  /\ Awake /\ At(c, "arrived")
  /\ \/ Retrieve(c)
     \/ Gone(c) /\ call' = [call EXCEPT ![c] = NoCall] /\ UNCHANGED <<trie, inserted>>
  /\ UNCHANGED <<options, server, post, worker_urls, asleep, left, shutdown, aborts, posterDeaths>>

\* min(self.worker_urls, key=self.worker_urls.get): the first with the lowest count.
Chosen ==
  LET count(i) == worker_urls[i].count
      lowest == {i \in DOMAIN worker_urls : \A j \in DOMAIN worker_urls : count(i) <= count(j)}
  IN Min(lowest)

\* _use_url, whose assertion fails when there is no worker.
UseUrl(c) ==
  /\ Awake /\ At(c, "routing")
  /\ IF worker_urls = <<>>
     THEN /\ call' = [call EXCEPT ![c].at = "replied", ![c].reply.status = "error"]
          /\ UNCHANGED worker_urls
     ELSE /\ call' = [call EXCEPT ![c].at = IF Caches(c) THEN "proxied" ELSE "body",
                                  ![c].url = worker_urls[Chosen].url]
          /\ worker_urls' = [worker_urls EXCEPT ![Chosen].count = @ + 1]
  /\ UNCHANGED <<options, server, post, trie, inserted, asleep, left, shutdown, aborts, posterDeaths>>

\* await request.body(), outside of the try; what the middleware has read is there.
ReadBody(c) ==
  /\ Awake /\ At(c, "body")
  /\ \/ call' = [call EXCEPT ![c].at = "proxied"] /\ UNCHANGED left
     \/ /\ Gone(c)
        /\ call' = [call EXCEPT ![c] = NoCall]
        /\ left' = [left EXCEPT ![call[c].url] = @ + 1]
  /\ UNCHANGED <<options, server, post, worker_urls, trie, inserted, asleep, shutdown, aborts,
                 posterDeaths>>

Finished_whenAnswered(urls, url, reply) ==
  [i \in DOMAIN urls |-> IF urls[i].url = url /\ reply.status # "error"
                         THEN [urls[i] EXCEPT !.count = @ - 1] ELSE urls[i]]
Finished(urls, url, reply) ==
  [i \in DOMAIN urls |-> IF urls[i].url = url THEN [urls[i] EXCEPT !.count = @ - 1] ELSE urls[i]]

\* What becomes of the one who asked, when the router answers.  The router has no
\* /remove_worker, so that shutdown is answered 404 and raises before it kills.
Answer(c) ==
  /\ call' = [call EXCEPT ![c] = NoCall]
  /\ post' = IF IsGenerate(c) /\ call[c].heard
             THEN [post EXCEPT ![c[2]] = AfterReply(@, call[c].reply)] ELSE post
  /\ shutdown' = IF IsGenerate(c) THEN shutdown ELSE [shutdown EXCEPT ![c[2]] = "over"]

\* The server's answer, or the exception in its place, and _finish_url.
FinishUrl(c) ==
  /\ Awake /\ At(c, "returned")
  /\ worker_urls' = Finished(worker_urls, call[c].url, call[c].reply)
  /\ IF Caches(c)
     THEN call' = [call EXCEPT ![c].at = "replied"] /\ UNCHANGED <<post, shutdown>>
     ELSE Answer(c)
  /\ UNCHANGED <<options, server, trie, inserted, asleep, left, aborts, posterDeaths>>

\* What the middleware keeps of the last answer.
Keep(c) ==
  LET text == Prompt[c[2]] \o call[c].reply.text
      tokens == call[c].input \o call[c].reply.tokens
  IN \E path \in DOMAIN trie :
     /\ last_node(trie, text, path)
     /\ trie' = insert(trie, path, text, tokens)
     /\ inserted' = inserted \cup {[text |-> text, tokens |-> tokens]}

\* Back in dispatch: an answer without a finish_reason, or with that of an abort, is
\* slept upon, another is kept, and an exception goes through.
Unfinished(reply) == reply.status \in {"abort", "rejected"}
Inspect(c) ==
  /\ Awake /\ At(c, "replied")
  /\ IF Caches(c) /\ Unfinished(call[c].reply)
     THEN /\ asleep' = c
          /\ UNCHANGED <<post, call, trie, inserted, shutdown>>
     ELSE /\ Answer(c)
          /\ IF Caches(c) /\ call[c].reply.status = "stop" THEN Keep(c)
             ELSE UNCHANGED <<trie, inserted>>
          /\ UNCHANGED asleep
  /\ UNCHANGED <<options, server, worker_urls, left, aborts, posterDeaths>>

Wake(c) ==
  /\ asleep = c
  /\ asleep' = Nobody
  /\ IF call[c].tries < MaxTries
     THEN /\ call' = [call EXCEPT ![c].at = "routing", ![c].tries = @ + 1, ![c].reply = NoReply]
          /\ UNCHANGED <<post, trie, inserted, shutdown>>
     ELSE /\ Answer(c)
          /\ IF call[c].reply.status = "abort" THEN Keep(c) ELSE UNCHANGED <<trie, inserted>>
  /\ UNCHANGED <<options, server, worker_urls, left, aborts, posterDeaths>>
-----------------------------------------------------------------------------
(* The servers, and the abort of a rollout *)

Returned(c, status, tokens) ==
  [call[c] EXCEPT !.at = "returned",
                  !.reply = [status |-> status, text |-> Spelled(tokens), tokens |-> tokens]]

\* A server that does not generate answers with an HTTP error, always so when it is
\* asked for /remove_worker.
Serve(c) ==
  /\ At(c, "proxied") /\ server[call[c].url] = "up"
  /\ \/ /\ IsGenerate(c)
        /\ \E tokens \in Outputs[c[2]] : call' = [call EXCEPT ![c] = Returned(c, "stop", tokens)]
     \/ /\ IsGenerate(c) => options.rejects
        /\ call' = [call EXCEPT ![c] = Returned(c, "rejected", <<>>)]
  /\ UNCHANGED <<options, server, post, routerVars, shutdown, aborts, posterDeaths>>

Refuse(c) ==
  /\ At(c, "proxied") /\ server[call[c].url] = "dead"
  /\ call' = [call EXCEPT ![c] = Returned(c, "error", <<>>)]
  /\ UNCHANGED <<options, server, post, routerVars, shutdown, aborts, posterDeaths>>

\* abort_request with abort_all: what a server is generating comes back unfinished.
Abort(w) ==
  /\ aborts < options.aborts /\ w \in Urls /\ server[w] = "up"
  /\ \E length \in {0, 1} :
       call' = [c \in Ids |->
         IF IsGenerate(c) /\ At(c, "proxied") /\ call[c].url = w
         THEN Returned(c, "abort", SubSeq(CHOOSE tokens \in Outputs[c[2]] : TRUE, 1, length))
         ELSE call[c]]
  /\ aborts' = aborts + 1
  /\ UNCHANGED <<options, server, post, routerVars, shutdown, posterDeaths>>

Fault(w) ==
  /\ server[w] = "up"
  /\ Cardinality({v \in Workers : server[v] \in {"dead", "sick"}}) < options.faults
  /\ server' = [server EXCEPT ![w] = options.fault]
  /\ UNCHANGED <<options, post, call, routerVars, shutdown, aborts, posterDeaths>>

\* The heartbeat fails and the engine is asked to shut down: it first has its
\* worker removed from the router.
Shutdown(w) ==
  /\ server[w] = "sick" /\ shutdown[w] = "no"
  /\ shutdown' = [shutdown EXCEPT ![w] = "asked"]
  /\ call' = [call EXCEPT ![<<"remove", w>>] = Arrived(<<"remove", w>>)]
  /\ UNCHANGED <<options, server, post, routerVars, aborts, posterDeaths>>

Proxying(c) == UseUrl(c) \/ ReadBody(c) \/ FinishUrl(c) \/ Inspect(c) \/ Wake(c) \/ Dispatch(c)
Serving(c) == Serve(c) \/ Refuse(c)
Faults == \/ \E p \in Posts : PosterDies(p)
          \/ \E w \in Workers : Abort(w) \/ Fault(w)
Next == \/ \E p \in Posts : Send(p)
        \/ \E w \in Workers : AddWorker(w) \/ Shutdown(w)
        \/ \E c \in Ids : Proxying(c) \/ Serving(c)
        \/ Faults

\* Something of the clients, the event loop and the servers runs as long as it can.
Work == \/ \E p \in Posts : Send(p)
        \/ \E c \in Ids : Serving(c)
        \/ \E c \in Ids : Proxying(c)
Fairness == WF_vars(Work)
Spec == Init /\ [][Next]_vars /\ Fairness
-----------------------------------------------------------------------------
(* Properties *)

UnderWay(w) == Cardinality({c \in Ids : call[c].url = w /\ call[c].at \in {"body", "proxied", "returned"}})

\* A request is sent to a server that has no more requests of the router under
\* way than any other, counting those whose client went away while its body was
\* read (_use_url; that count is never taken back).
LeastLoaded ==
  [][\A c \in Ids : (call[c].at = "routing" /\ call'[c].at \in {"body", "proxied"}) =>
       \A w \in Urls : UnderWay(call'[c].url) + left[call'[c].url] <= UnderWay(w) + left[w]]_vars

\* Every post returns an answer or raises in the end, whatever dies and however
\* often the middleware is put to sleep, unless a server neither answers nor dies
\* (post, _post, dispatch).
PostsReturn ==
  options.fault = "dead" => \A p \in Posts : <>(post[p].state \in {"answered", "failed"})

\* What is retrieved for a text the trie was told spells that text
\* (retrieve_from_text), as long as of two such texts that begin alike the tokens
\* do too.
AlikeFromTheStart ==
  \A x, y \in inserted : IsStrictPrefix(x.text, y.text) => IsPrefix(x.tokens, y.tokens)
TokensSpellTheText ==
  AlikeFromTheStart =>
    \A x \in inserted, path \in DOMAIN trie :
      last_node(trie, x.text, path) => Spelled(Retrieved(trie, path, x.text)) = x.text

\* "If a heartbeat times out, that SGLang server will be stopped"
\* (fault-tolerance.md:9).
SickServerIsStopped == \A w \in Workers : shutdown[w] = "over" => server[w] = "dead"
=============================================================================
