------------------------------- MODULE Routes -------------------------------
(***************************************************************************)
(* The handlers behind the router (web.rs, pure).  A handler runs blocking *)
(* tasks one after the other; each first asks who sent the request, then   *)
(* for its CSRF token, then calls the service.  Handlers that do the same  *)
(* are equal here: paths, names, wording and HTML are left out, and so is  *)
(* which function of the service is called (CaSigning, Templates, Login,   *)
(* Backup).                                                                *)
(*                                                                         *)
(* A download may build and store a truststore; it counts as reading       *)
(* (CaSigning has that step).                                              *)
(***************************************************************************)
EXTENDS Sequences

(* who: require_viewer, require_admin, or neither; token: where the token   *)
(* that must match the cookie is.                                           *)
Task(who, token, call) == [who |-> who, token |-> token, call |-> call]

(* ok: what a success is answered with, "data" standing for JSON and files, *)
(* which set no cookies; again: the tasks that render the form again if the *)
(* service refuses; api: errors are JSON, not pages.                        *)
Handler(tasks, ok) == [tasks |-> tasks, ok |-> ok, again |-> <<>>, api |-> FALSE]

At_once(ok) == Handler(<<>>, ok)

Api(handler) == [handler EXCEPT !.api = TRUE]

RenderedAgain(handler, page) == [handler EXCEPT !.again = page.tasks]

blocking == <<Task("anyone", "none", "read")>>

admin_blocking(token, call) == <<Task("admin", token, call)>>

viewer_blocking(call) == <<Task("viewer", "none", call)>>

page_response == Handler(viewer_blocking("read"), "page")

admin_page_response == Handler(admin_blocking("none", "read"), "page")

mutate_form_response == Handler(admin_blocking("form", "write"), "redirect")

save_template_response == RenderedAgain(mutate_form_response, admin_page_response)

api_view == Api(Handler(viewer_blocking("read"), "data"))

(* check_csrf; it would let GET pass, but every caller has another method.  *)
api_admin(call) == Api(Handler(admin_blocking("header", call), "data"))

public_ca_download == Handler(blocking, "data")

----------------------------------------------------------------------------
(* Pages.                                                                   *)
home == Handler(blocking, "public page")
ca_list == page_response
ca_detail == page_response
cert_detail == page_response
template_list == page_response
new_ca_form == admin_page_response
import_ca_form == admin_page_response
new_cert_form == admin_page_response
import_cert_form == admin_page_response
new_template_form == admin_page_response
edit_template_form == admin_page_response
admin_console == admin_page_response
swagger_page == admin_page_response
inspect_form == admin_page_response

(* The token is checked although nothing is changed.                        *)
inspect_form_post == Handler(admin_blocking("form", "read"), "page")

(* Answered 401, whoever asks, so that the browser forgets its password.    *)
logout == At_once("public page")

switch_lang == At_once("language")

----------------------------------------------------------------------------
(* Forms.  The forms of CAs and certificates are rendered again for viewers *)
(* too, by page_response.                                                   *)
create_ca_form == RenderedAgain(mutate_form_response, page_response)
import_ca_form_post == RenderedAgain(mutate_form_response, page_response)
create_cert_form == RenderedAgain(mutate_form_response, page_response)
import_cert_form_post == RenderedAgain(mutate_form_response, page_response)
delete_ca_form == mutate_form_response
renew_ca_form == mutate_form_response
delete_cert_form == mutate_form_response
renew_cert_form == mutate_form_response
revoke_cert_form == mutate_form_response
create_template_form == save_template_response
update_template_form == save_template_response
delete_template_form == mutate_form_response
admin_create_user == RenderedAgain(mutate_form_response, admin_page_response)
admin_delete_user == mutate_form_response
admin_nuke == mutate_form_response
admin_restore_ca == mutate_form_response
admin_restore_cert == mutate_form_response

restore_unchecked ==   \* mutant: the token in the upload is not looked at
  Handler(admin_blocking("none", "none") \o <<Task("anyone", "none", "write")>>, "redirect")

(* The sender is authenticated before the upload is read, its token, which  *)
(* is a part of the upload, after.                                          *)
admin_backup_restore ==
  Handler(admin_blocking("none", "none") \o <<Task("anyone", "form", "write")>>, "redirect")

----------------------------------------------------------------------------
(* Files.                                                                   *)
crl_download == Handler(blocking, "data")
public_ca_cert_download == public_ca_download

(* The certificate and the truststore are public, the key is not.           *)
download_ca == Handler(viewer_blocking("read"), "data")
download_cert == Handler(viewer_blocking("read"), "data")
admin_backup_export == Handler(admin_blocking("none", "read"), "data")

----------------------------------------------------------------------------
(* JSON.                                                                    *)
api_csrf == Api(At_once("token"))
api_list_cas == api_view
api_get_ca == api_view
api_list_certs == api_view
api_get_cert == api_view
api_list_templates == api_view
api_get_template == api_view

(* The search is a task of its own.                                         *)
api_find_cert_by_cn == Api(Handler(viewer_blocking("none") \o blocking, "data"))

api_create_ca == api_admin("write")
api_import_ca == api_admin("write")
api_delete_ca == api_admin("write")
api_renew_ca == api_admin("write")
api_create_cert == api_admin("write")
api_import_cert == api_admin("write")
api_delete_cert == api_admin("write")
api_renew_cert == api_admin("write")
api_revoke_cert == api_admin("write")
api_inspect == api_admin("read")
api_create_template == api_admin("write")
api_update_template == api_admin("write")
api_delete_template == api_admin("write")
api_backup_export == Api(Handler(admin_blocking("none", "read"), "data"))
api_backup_restore == api_admin("write")
api_not_found == Api(At_once("data"))
api_method_not_allowed == Api(At_once("data"))

----------------------------------------------------------------------------
router ==
  {home, ca_list, ca_detail, cert_detail, template_list, new_ca_form, import_ca_form,
   new_cert_form, import_cert_form, new_template_form, edit_template_form,
   admin_console, swagger_page, inspect_form, inspect_form_post, logout, switch_lang,
   create_ca_form, import_ca_form_post, create_cert_form, import_cert_form_post,
   delete_ca_form, renew_ca_form, delete_cert_form, renew_cert_form, revoke_cert_form,
   create_template_form, update_template_form, delete_template_form,
   admin_create_user, admin_delete_user, admin_nuke, admin_restore_ca,
   admin_restore_cert, admin_backup_restore, crl_download, public_ca_cert_download,
   public_ca_download, download_ca, download_cert, admin_backup_export}
  \union
  {api_csrf, api_list_cas, api_get_ca, api_list_certs, api_get_cert,
   api_list_templates, api_get_template, api_find_cert_by_cn, api_create_ca,
   api_import_ca, api_delete_ca, api_renew_ca, api_create_cert, api_import_cert,
   api_delete_cert, api_renew_cert, api_revoke_cert, api_inspect, api_create_template,
   api_update_template, api_delete_template, api_backup_export, api_backup_restore,
   api_not_found, api_method_not_allowed}
=============================================================================
