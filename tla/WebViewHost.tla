---------------------------- MODULE WebViewHost ----------------------------
(***************************************************************************)
(* webview2_host_service.c: the host of an embedded browser.  The browser  *)
(* is created by two asynchronous requests, for an environment and then    *)
(* for a controller; both are answered on the UI thread.  Until then the   *)
(* host queues what the tab asks of it: one address (the last one wins)    *)
(* and one visibility.  A host is a record; the tab that owns it keeps it  *)
(* in a variable and passes it through the operators below.                *)
(*   stage  what the host is: "env" or "controller" while the request is   *)
(*          out, "ready", "failed" (the tab is not told), "freed"          *)
(*   late   the requests still out when the host was freed                 *)
(*   shown  what the browser itself was told, want the queued visibility   *)
(*   uri    the queued address; page the last address the browser got;     *)
(*   loads  the navigations it has not completed yet                       *)
(***************************************************************************)
EXTENDS Naturals

CONSTANT NoPage

NewHost == [stage |-> "env", late |-> FALSE, shown |-> TRUE, want |-> TRUE,
            uri |-> NoPage, page |-> NoPage, loads |-> 0]

HostType(Pages, most) ==
  [stage: {"env", "controller", "ready", "failed", "freed"}, late: BOOLEAN, shown: BOOLEAN, want: BOOLEAN,
   uri: Pages \cup {NoPage}, page: Pages \cup {NoPage}, loads: 0..most]

Ready(h) == h.stage = "ready"

Sent(h, uri) == [h EXCEPT !.page = uri, !.loads = @ + 1]

\* wv2_navigate: to the browser, or into the one-address queue.
wv2_navigate(h, uri) == IF Ready(h) THEN Sent(h, uri) ELSE [h EXCEPT !.uri = uri]

\* wv2_set_visible: to the browser, or into the queue.
wv2_set_visible_NotQueued(h, v) == IF Ready(h) THEN [h EXCEPT !.shown = v] ELSE h
wv2_set_visible(h, v) ==
  IF Ready(h) THEN [h EXCEPT !.shown = v] ELSE [h EXCEPT !.want = v]

\* WV2EnvH_Invoke: the environment arrived, the controller is requested.  An
\* error of either request ends the matter without a word to the tab.
EnvH_Invoke(h, ok) == [h EXCEPT !.stage = IF ok THEN "controller" ELSE "failed"]

\* wv2_apply_pending: the queued visibility and then the queued address.
wv2_apply_pending_Forgets(h) == [h EXCEPT !.shown = TRUE, !.want = TRUE]
wv2_apply_pending(h) ==
  LET vis == [h EXCEPT !.shown = h.want, !.want = TRUE]
  IN  IF h.uri = NoPage THEN vis ELSE [Sent(vis, h.uri) EXCEPT !.uri = NoPage]

\* WV2CtrlH_Invoke up to the tab's ready callback.
CtrlH_Invoke(h, ok) ==
  IF ok THEN wv2_apply_pending([h EXCEPT !.stage = "ready"]) ELSE [h EXCEPT !.stage = "failed"]

\* The event handlers leave with the controller; a request that is out is
\* not withdrawn, and its handler keeps the pointer.
wv2_destroy(h) ==
  [h EXCEPT !.stage = "freed", !.late = h.stage \in {"env", "controller"}, !.loads = 0]
=============================================================================
