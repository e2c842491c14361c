------------------------------ MODULE MCOnboarding ------------------------------
(* A small instance of Onboarding: a service without a login, and one whose *)
(* start page leads to a form.                                              *)
EXTENDS Onboarding

Html(marks) ==
  [status |-> "ok", to |-> "nowhere", type |-> "html", marks |-> marks]
Redirect(to) == [status |-> "redirect", to |-> to, type |-> "other", marks |-> {}]

Plain == [first |-> Html({}), second |-> NoReply]
Form == [first |-> Redirect("path"), second |-> Html({"password", "form"})]

MCPages == {Plain, Form}
=============================================================================
