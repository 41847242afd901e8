--------------------------- MODULE MCBrowserClient ---------------------------
(* A small instance of BrowserClient: offers of two other participants.          *)
EXTENDS BrowserClient

MCKinds == {"video", "audio"}

MCSenders == {1, 2}

=============================================================================
